---- MODULE Spec2Model ----
(***************************************************************************)
(* netsuite-sdk: the HTTP transport core (retry engine, request signer,   *)
(* middleware chain executor, transport orchestrator, concurrent calls),   *)
(* the paginating SuiteQL query executor and the utilities (account        *)
(* identifiers, rate limiter, response cache), as state machines.          *)
(***************************************************************************)
EXTENDS Integers, Sequences, FiniteSets, TLC

(***************************************************************************)
(* Bounds of the model                                                     *)
(***************************************************************************)
\* largest maxRetries a caller passes (the smallest is -1)
MaxRetriesBound == 2
\* Math.random() is drawn as r / RandDen with r in 0 .. RandDen-1
RandDen == 4

(***************************************************************************)
(* Small helpers                                                           *)
(***************************************************************************)
Min(a, b) == IF a <= b THEN a ELSE b

RECURSIVE Pow(_, _)
Pow(b, n) == IF n <= 0 THEN 1 ELSE b * Pow(b, n - 1)

\* { ...d, ...c }: object spread, the right operand wins
Spread(d, c) == [k \in (DOMAIN d) \cup (DOMAIN c) |-> IF k \in DOMAIN c THEN c[k] ELSE d[k]]

(***************************************************************************)
(* Errors (types/errors.ts)                                                *)
(***************************************************************************)
\* a value that may be missing is the empty set (undefined), Null, or the
\* singleton of the value
Undefined == {}

\* null: a set of two elements, which differs from undefined and from the
\* singleton of any value, of whatever type
Null == {"null", "object"}

\* a is undefined or null
Nullish(a) == a = Undefined \/ a = Null

\* a ?? b
Coalesce(a, b) == IF Nullish(a) THEN b ELSE CHOOSE v \in a : TRUE

\* a parameter or destructured field with the default b: only undefined yields b
Default(a, b) == IF a = Undefined THEN b ELSE IF a = Null THEN Null ELSE CHOOSE v \in a : TRUE

\* new NetSuiteError(message, status, code, details, requestUrl, requestMethod);
\* id tells thrown objects apart
NetSuiteError(message, status, code, details, requestUrl, requestMethod, id) ==
    [type |-> "NetSuiteError", message |-> message, status |-> status, code |-> code,
     details |-> details, requestUrl |-> requestUrl, requestMethod |-> requestMethod, id |-> id]

\* new Error(message): anything that is not a NetSuiteError
PlainError(message, id) ==
    [type |-> "Error", message |-> message, status |-> -1, code |-> "",
     details |-> Undefined, requestUrl |-> Undefined, requestMethod |-> Undefined, id |-> id]

instanceofNetSuiteError(e) == e.type = "NetSuiteError"

isRetryable(e) == e.status >= 500 \/ e.code = "TIMEOUT" \/ e.code = "NETWORK_ERROR"

isAuthError(e) == e.status = 401 \/ e.status = 403

(***************************************************************************)
(* Retry engine (transport/retry.ts)                                       *)
(***************************************************************************)
\* a default predicate that accepts every error
DefaultShouldRetry_Always(e) == TRUE

\* the predicate of DEFAULT_RETRY_CONFIG
DefaultShouldRetry(e) == IF instanceofNetSuiteError(e) THEN isRetryable(e) ELSE TRUE

DEFAULT_RETRY_CONFIG ==
    [maxRetries |-> 3, initialDelay |-> 1000, maxDelay |-> 30000, backoffFactor |-> 2,
     shouldRetry |-> "default"]

\* predicates a caller can pass as shouldRetry(error, attempt)
ShouldRetryKinds == {"default", "always", "never", "firstOnly"}

\* the predicate HttpTransport.request passes to withRetry
TransportShouldRetry(e) == IF instanceofNetSuiteError(e) THEN isRetryable(e) ELSE TRUE

\* a withRetry that consults the default predicate whatever the caller passed
ShouldRetry_DefaultOnly(kind, e, att) == DefaultShouldRetry(e)

\* opts.shouldRetry(error, attempt)
ShouldRetry(kind, e, att) ==
    CASE kind = "default"   -> DefaultShouldRetry(e)
      [] kind = "transport" -> TransportShouldRetry(e)
      [] kind = "always"    -> TRUE
      [] kind = "never"     -> FALSE
      [] kind = "firstOnly" -> att = 0

\* a backoff without the cap
BackoffDelay_NoCap(o, att) == o.initialDelay * Pow(o.backoffFactor, att)

\* Math.min(initialDelay * backoffFactor^attempt, maxDelay)
BackoffDelay(o, att) == Min(o.initialDelay * Pow(o.backoffFactor, att), o.maxDelay)

\* (delay + jitter) * 4 * RandDen, with jitter = delay * 0.25 * (Math.random() * 2 - 1)
SleptScaled(delay, r) == delay * 4 * RandDen + delay * (2 * r - RandDen)

VARIABLES
    opts,              \* withRetry: { ...DEFAULT_RETRY_CONFIG, ...config }
    attempt,           \* withRetry: the loop variable
    rpc,               \* withRetry: "loop" | "fn" | "sleep" | "resolved" | "rejected"
    calls,             \* number of invocations of fn
    shouldRetryCalls,  \* number of invocations of opts.shouldRetry
    onRetryLog,        \* arguments of the invocations of opts.onRetry
    slept,             \* the backoff sleeps: [delay, rand]
    settled,           \* what withRetry resolved or rejected with
    fnLog              \* mock fn: the outcome of each invocation

retryVars == <<opts, attempt, rpc, calls, shouldRetryCalls, onRetryLog, slept, settled, fnLog>>

Pending == [kind |-> "pending"]
Resolved(v) == [kind |-> "ok", value |-> v]
Rejected(e) == [kind |-> "err", error |-> e]

\* withRetry(fn, config) up to the loop: `const opts = ...; let attempt = 0`
withRetry(config) ==
    /\ rpc = "idle"
    /\ opts' = Spread(DEFAULT_RETRY_CONFIG, config)
    /\ attempt' = 0
    /\ rpc' = "loop"
    /\ UNCHANGED <<calls, shouldRetryCalls, onRetryLog, slept, settled>>

\* LoopHead with the loop condition off by one (`attempt < opts.maxRetries`)
LoopHead_OffByOne ==
    /\ rpc = "loop"
    /\ IF attempt < opts.maxRetries
       THEN /\ rpc' = "fn"
            /\ calls' = calls + 1
            /\ settled' = settled
       ELSE /\ rpc' = "rejected"
            /\ calls' = calls
            /\ settled' = Rejected(PlainError("Retry loop exited unexpectedly", 0))
    /\ UNCHANGED <<opts, attempt, shouldRetryCalls, onRetryLog, slept>>

\* the loop head: `attempt <= opts.maxRetries`, then `fn()`; the trailing throw otherwise
LoopHead ==
    /\ rpc = "loop"
    /\ IF attempt <= opts.maxRetries
       THEN /\ rpc' = "fn"
            /\ calls' = calls + 1
            /\ settled' = settled
       ELSE /\ rpc' = "rejected"
            /\ calls' = calls
            /\ settled' = Rejected(PlainError("Retry loop exited unexpectedly", 0))
    /\ UNCHANGED <<opts, attempt, shouldRetryCalls, onRetryLog, slept>>

\* a loop that goes on to the next attempt after fn resolved
ReturnResult_KeepsGoing(v) ==
    /\ rpc = "fn"
    /\ rpc' = "loop"
    /\ attempt' = attempt + 1
    /\ UNCHANGED <<opts, calls, shouldRetryCalls, onRetryLog, slept, settled>>

\* `return await fn()` when fn resolves
ReturnResult(v) ==
    /\ rpc = "fn"
    /\ rpc' = "resolved"
    /\ settled' = Resolved(v)
    /\ UNCHANGED <<opts, attempt, calls, shouldRetryCalls, onRetryLog, slept>>

\* the caller passed an onRetry (the field is optional, and the defaults have none)
Observed(o) == "onRetry" \in DOMAIN o

\* a catch block that goes on to the next attempt without sleeping
CatchBlock_NoSleep(error, rands) ==
    /\ rpc = "fn"
    /\ LET isLastAttempt == attempt = opts.maxRetries
       IN IF isLastAttempt \/ ~ShouldRetry(opts.shouldRetry, error, attempt)
          THEN /\ rpc' = "rejected"
               /\ settled' = Rejected(error)
               /\ shouldRetryCalls' = IF isLastAttempt THEN shouldRetryCalls ELSE shouldRetryCalls + 1
               /\ attempt' = attempt
               /\ UNCHANGED <<onRetryLog, slept>>
          ELSE /\ shouldRetryCalls' = shouldRetryCalls + 1
               /\ onRetryLog' = IF Observed(opts)
                                THEN Append(onRetryLog, [error |-> error, attempt |-> attempt + 1])
                                ELSE onRetryLog
               /\ rpc' = "loop"
               /\ attempt' = attempt + 1
               /\ UNCHANGED <<slept, settled>>
    /\ UNCHANGED <<opts, calls>>

\* the catch block, up to the start of the sleep: `opts.onRetry?.(error, attempt + 1)`
\* invokes the onRetry the caller passed, if any, which returns or throws; rands
\* is what Math.random() may return (numerators over RandDen)
CatchBlock(error, rands) ==
    /\ rpc = "fn"
    /\ LET isLastAttempt == attempt = opts.maxRetries
       IN IF isLastAttempt \/ ~ShouldRetry(opts.shouldRetry, error, attempt)
          THEN /\ rpc' = "rejected"
               /\ settled' = Rejected(error)
               /\ shouldRetryCalls' = IF isLastAttempt THEN shouldRetryCalls ELSE shouldRetryCalls + 1
               /\ UNCHANGED <<onRetryLog, slept>>
          ELSE /\ shouldRetryCalls' = shouldRetryCalls + 1
               /\ onRetryLog' = IF Observed(opts)
                                THEN Append(onRetryLog, [error |-> error, attempt |-> attempt + 1])
                                ELSE onRetryLog
               /\ IF Observed(opts) /\ opts.onRetry = "throws"
                  THEN /\ rpc' = "rejected"
                       /\ settled' = Rejected(PlainError("onRetry threw", attempt + 1))
                       /\ slept' = slept
                  ELSE /\ \E r \in rands :
                            slept' = Append(slept, [delay |-> BackoffDelay(opts, attempt), rand |-> r])
                       /\ rpc' = "sleep"
                       /\ settled' = settled
    /\ UNCHANGED <<opts, attempt, calls>>

\* the timer fires: `attempt++` and back to the loop head
Wake ==
    /\ rpc = "sleep"
    /\ rpc' = "loop"
    /\ attempt' = attempt + 1
    /\ UNCHANGED <<opts, calls, shouldRetryCalls, onRetryLog, slept, settled>>

(***************************************************************************)
(* withRetry around a scripted operation (as in the retry tests)           *)
(***************************************************************************)
\* what a wrapped operation can throw; the id is the number of the call that threw
FnErrors(id) ==
    { NetSuiteError("Not Found", 404, "NOT_FOUND", Undefined, Undefined, Undefined, id),
      NetSuiteError("Server Error", 500, "SERVER_ERROR", Undefined, Undefined, Undefined, id),
      NetSuiteError("Timeout", 504, "TIMEOUT", Undefined, Undefined, Undefined, id),
      PlainError("fail", id) }

RetryConfigs ==
    { [maxRetries |-> n, initialDelay |-> 10, shouldRetry |-> k] :
          n \in -1 .. MaxRetriesBound, k \in ShouldRetryKinds }
    \cup { [maxRetries |-> n, initialDelay |-> 10, shouldRetry |-> k, onRetry |-> "returns"] :
               n \in -1 .. MaxRetriesBound, k \in ShouldRetryKinds }
    \cup { [maxRetries |-> n, initialDelay |-> 10, onRetry |-> "returns"] :
               n \in -1 .. MaxRetriesBound }
    \cup { [maxRetries |-> n, initialDelay |-> 10] : n \in -1 .. MaxRetriesBound }
    \cup { [maxRetries |-> n, maxDelay |-> 15] : n \in 0 .. MaxRetriesBound }
    \cup { [initialDelay |-> 10] }
    \cup { [initialDelay |-> d, maxDelay |-> m, backoffFactor |-> f] :
               d \in {0, 10}, m \in {15, 25}, f \in {1, 3} }
    \cup { [maxRetries |-> 2, initialDelay |-> d, maxDelay |-> m, backoffFactor |-> f] :
               d \in {-10, 10}, m \in {-20, 25}, f \in {-1, 0, 2} }

\* the tests call withRetry(fn, config)
CallWithRetry ==
    /\ \E config \in RetryConfigs : withRetry(config)
    /\ fnLog' = fnLog

FnResolves ==
    /\ ReturnResult([from |-> calls])
    /\ fnLog' = Append(fnLog, Resolved([from |-> calls]))

FnRejects ==
    \E e \in FnErrors(calls) :
        /\ CatchBlock(e, 0 .. (RandDen - 1))
        /\ fnLog' = Append(fnLog, Rejected(e))

(***************************************************************************)
(* Paginating query executor (suiteql/suiteql-client.ts)                   *)
(***************************************************************************)
\* most rows the server holds
MaxServerRows == 5
\* largest pageSize a caller passes
MaxPageSize == 3
\* largest maxRows a caller passes
MaxMaxRows == 3
\* largest starting offset a caller passes
MaxOffset == 2

\* most rows an endpoint that answers anything puts in one page
MaxPageRows == 2
\* the page requests of one call such an endpoint answers with a page of its
\* choice; it answers every later one with an empty page
MaxFreePages == 3

\* `maxRows = Infinity`: larger than any number of rows
Infinity == 1000000000

VARIABLES
    server,         \* the SuiteQL endpoint: the rows it holds, how it sets hasMore
    qopts,          \* the destructured options: mode, pageSize, startOffset, maxRows
    qpc,            \* "idle" | "loop" | "await" | "yield" | "resume" | "done" | "failed"
    allItems,       \* query: the rows accumulated
    totalYielded,   \* queryPages: the rows yielded
    currentOffset,
    totalResults,
    pagesFetched,
    page,           \* queryPages: the page held across the yield
    requests,       \* the calls of transport.request, in order
    pageSizes,      \* the number of rows of each page received
    received,       \* the page envelopes received, in order
    yielded,        \* queryPages: the pages handed to the consumer
    qresult,        \* what query() or queryOne() resolved or rejected with
    awaited,        \* queryOne: what the query() it awaits settled with
    prior           \* the requests and rows of the query() call made before this one

queryVars == <<server, qopts, qpc, allItems, totalYielded, currentOffset, totalResults,
               pagesFetched, page, requests, pageSizes, received, yielded, qresult, awaited,
               prior>>

\* how the endpoint sets the hasMore flag of a page
ServerKinds == {"honest", "flagFalse", "flagTrue"}

Servers == [rows : 0 .. MaxServerRows, kind : ServerKinds]

\* the page envelope the endpoint answers `?limit=..&offset=..` with: rows
\* offset+1 .. min(offset+limit, rows) in server order, and the total
ServerPage(srv, limit, offset) ==
    LET count == IF Min(offset + limit, srv.rows) > offset
                 THEN Min(offset + limit, srv.rows) - offset ELSE 0
        items == [n \in 1 .. count |-> offset + n]
    IN [items |-> items,
        totalResults |-> srv.rows,
        hasMore |-> CASE srv.kind = "honest"    -> offset + count < srv.rows
                      [] srv.kind = "flagFalse" -> FALSE
                      [] srv.kind = "flagTrue"  -> TRUE,
        offset |-> offset]

\* an endpoint that answers anything: a page of no row, of one row or of
\* MaxPageRows rows (at most one more than the limit asked for), with any
\* total and any flag
AnyServer == [rows |-> 0, kind |-> "any"]

\* the envelopes the endpoint may answer the n-th page request of a call with
ServerPages(srv, limit, offset, n) ==
    IF srv.kind # "any"
    THEN {ServerPage(srv, limit, offset)}
    ELSE IF n > MaxFreePages
    THEN {[items |-> <<>>, totalResults |-> 0, hasMore |-> FALSE, offset |-> offset]}
    ELSE { [items |-> [i \in 1 .. count |-> offset + i],
            totalResults |-> total,
            hasMore |-> flag,
            offset |-> offset] :
              count \in {0, 1, Min(limit + 1, MaxPageRows)},
              total \in {0, MaxServerRows},
              flag \in BOOLEAN }

NoPage == [items |-> <<>>, totalResults |-> 0, hasMore |-> FALSE, offset |-> 0]

\* SuiteQLOptions.pageSize: "Default: 1000, Max: 1000"
PageSizeCeiling == 1000

\* the SuiteQLOptions a caller passes; one page size lies above the ceiling
SuiteQLOptions ==
    [pageSize : {Undefined} \cup { {n} : n \in (0 .. MaxPageSize) \cup {PageSizeCeiling + 1} },
     offset   : {Undefined} \cup { {n} : n \in 1 .. MaxOffset },
     maxRows  : {Undefined} \cup { {n} : n \in 0 .. MaxMaxRows }]

\* the options of the calls made against the endpoint srv: against one that
\* answers anything, the default, the smallest and the largest page size, from
\* the start or from offset 1, with any maxRows
OptionsAgainst(srv) ==
    IF srv.kind # "any" THEN SuiteQLOptions
    ELSE { o \in SuiteQLOptions :
              /\ o.pageSize \in {Undefined, {1}, {MaxPageSize}}
              /\ o.offset \in {Undefined, {1}} }

\* `const { pageSize = 1000, offset: startOffset = 0, maxRows = Infinity } = options`
Destructure(mode, o) ==
    [mode |-> mode,
     pageSize |-> Default(o.pageSize, 1000),
     startOffset |-> Default(o.offset, 0),
     maxRows |-> Default(o.maxRows, Infinity)]

\* the limit with the maxRows cap left out
EffectiveLimit_NoCap(pageSize, maxRows, rowsSoFar) == pageSize

\* Math.min(pageSize, maxRows - allItems.length)
EffectiveLimit(pageSize, maxRows, rowsSoFar) == Min(pageSize, maxRows - rowsSoFar)

\* a loop that takes every page to be followed by another
MorePages_Always(pg, offset, total) == TRUE

\* the count comparison with <= in place of <
MorePages_OffByOne(pg, offset, total) == pg.hasMore \/ offset + Len(pg.items) <= total

\* page.hasMore || currentOffset + page.items.length < totalResults
MorePages(pg, offset, total) == pg.hasMore \/ offset + Len(pg.items) < total

\* an offset that advances by one row whatever the page held
NextOffset_ByOne(offset, pg) == offset + 1

\* `currentOffset += page.items.length`
NextOffset(offset, pg) == offset + Len(pg.items)

\* the call transport.request(url, {method: 'POST', body: {q: sql}, headers: {Prefer: 'transient'}})
PageRequest(limit, offset) ==
    [limit |-> limit, offset |-> offset, method |-> "POST",
     headers |-> ("Prefer" :> "transient")]

\* the SuiteQLResult query() returns
QueryResult(items, total, pages) ==
    [items |-> items, totalResults |-> total, pagesFetched |-> pages,
     hasMore |-> Len(items) < total]

\* a row where null may stand
Row(v) == {v}

\* queryOne passing the caller's options on as they are
QueryOneOptions_NoCap(o) == o

\* `{ ...options, maxRows: 1 }`
QueryOneOptions(o) == [o EXCEPT !.maxRows = {1}]

\* `result.items[0] ?? null`
FirstOrNull(result) == IF Len(result.items) >= 1 THEN Row(result.items[1]) ELSE Null

\* query() or queryPages() settles with outcome: the caller's promise settles,
\* or, under queryOne, the promise `await this.query(...)` waits for, whose
\* continuation runs in a later step
Settles(outcome) ==
    IF qopts.mode = "one"
    THEN /\ awaited' = outcome
         /\ qpc' = "resume"
         /\ qresult' = qresult
    ELSE /\ qresult' = outcome
         /\ qpc' = IF outcome.kind = "ok" THEN "done" ELSE "failed"
         /\ awaited' = awaited

\* queryOne after its await: `return result.items[0] ?? null`, or the rejection
\* of query() passed on
QueryOneResumes ==
    /\ qpc = "resume"
    /\ IF awaited.kind = "ok"
       THEN /\ qresult' = Resolved(FirstOrNull(awaited.value))
            /\ qpc' = "done"
       ELSE /\ qresult' = awaited
            /\ qpc' = "failed"
    /\ UNCHANGED <<awaited, prior, server, qopts, allItems, totalYielded, currentOffset,
                   totalResults, pagesFetched, page, requests, pageSizes, received, yielded>>

\* no earlier call to compare with
NoPrior == [made |-> FALSE, requests |-> <<>>, items |-> <<>>]

\* query(sql, options), up to the loop
Query ==
    /\ qpc = "idle"
    /\ \E o \in OptionsAgainst(server) : qopts' = Destructure("query", o)
    /\ allItems' = <<>>
    /\ currentOffset' = qopts'.startOffset
    /\ totalResults' = 0
    /\ pagesFetched' = 0
    /\ qpc' = "loop"
    /\ UNCHANGED <<awaited, prior, server, totalYielded, page, requests, pageSizes, received, yielded, qresult>>

\* queryOne(sql, options): query(sql, { ...options, maxRows: 1 }), up to the loop
QueryOne ==
    /\ qpc = "idle"
    /\ \E o \in OptionsAgainst(server) : qopts' = Destructure("one", QueryOneOptions(o))
    /\ allItems' = <<>>
    /\ currentOffset' = qopts'.startOffset
    /\ totalResults' = 0
    /\ pagesFetched' = 0
    /\ qpc' = "loop"
    /\ UNCHANGED <<awaited, prior, server, totalYielded, page, requests, pageSizes, received, yielded, qresult>>

\* query: the loop head, to the call of transport.request or to the return
QueryLoop ==
    /\ qpc = "loop"
    /\ qopts.mode \in {"query", "one"}
    /\ LET effectiveLimit == EffectiveLimit(qopts.pageSize, qopts.maxRows, Len(allItems))
       IN IF effectiveLimit <= 0
          THEN /\ Settles(Resolved(QueryResult(allItems, totalResults, pagesFetched)))
               /\ requests' = requests
          ELSE /\ qpc' = "await"
               /\ requests' = Append(requests, PageRequest(effectiveLimit, currentOffset))
               /\ UNCHANGED <<qresult, awaited>>
    /\ UNCHANGED <<prior, server, qopts, allItems, totalYielded, currentOffset, totalResults,
                   pagesFetched, page, pageSizes, received, yielded>>

\* query: the transport resolved with a page; to the next loop head or to the return
QueryPage ==
    /\ qpc = "await"
    /\ qopts.mode \in {"query", "one"}
    /\ \E pg \in ServerPages(server, requests[Len(requests)].limit,
                             requests[Len(requests)].offset, Len(requests)) :
       LET items == allItems \o pg.items
           hasMore == MorePages(pg, currentOffset, pg.totalResults)
       IN /\ totalResults' = pg.totalResults
          /\ pagesFetched' = pagesFetched + 1
          /\ allItems' = items
          /\ pageSizes' = Append(pageSizes, Len(pg.items))
          /\ received' = Append(received, pg)
          /\ IF ~hasMore \/ Len(items) >= qopts.maxRows \/ Len(pg.items) = 0
             THEN /\ Settles(Resolved(QueryResult(items, pg.totalResults, pagesFetched + 1)))
                  /\ currentOffset' = currentOffset
             ELSE /\ qpc' = "loop"
                  /\ UNCHANGED <<qresult, awaited>>
                  /\ currentOffset' = NextOffset(currentOffset, pg)
    /\ UNCHANGED <<prior, server, qopts, totalYielded, page, requests, yielded>>

\* the error transport.request rejects the n-th page request with
TransportError(n) ==
    NetSuiteError("Server Error", 500, "HTTP_500", Undefined, Undefined, Undefined, n)

\* a query() that catches the rejection and resolves with the rows it has
PageRejected_Partial ==
    /\ qpc = "await"
    /\ IF qopts.mode = "one"
       THEN Settles(Resolved(QueryResult(allItems, totalResults, pagesFetched)))
       ELSE /\ qpc' = "failed"
            /\ qresult' = Resolved(QueryResult(allItems, totalResults, pagesFetched))
            /\ awaited' = awaited
    /\ UNCHANGED <<prior, server, qopts, allItems, totalYielded, currentOffset, totalResults,
                   pagesFetched, page, requests, pageSizes, received, yielded>>

\* the transport rejected the page request: query() and queryPages() reject with it
PageRejected ==
    /\ qpc = "await"
    /\ Settles(Rejected(TransportError(Len(requests))))
    /\ UNCHANGED <<prior, server, qopts, allItems, totalYielded, currentOffset, totalResults,
                   pagesFetched, page, requests, pageSizes, received, yielded>>

\* queryPages(sql, options): the generator is created and pulled for the first time
QueryPages ==
    /\ qpc = "idle"
    /\ \E o \in OptionsAgainst(server) : qopts' = Destructure("pages", o)
    /\ currentOffset' = qopts'.startOffset
    /\ totalYielded' = 0
    /\ qpc' = "loop"
    /\ UNCHANGED <<awaited, prior, server, allItems, totalResults, pagesFetched, page, requests, pageSizes, received,
                   yielded, qresult>>

\* after query() resolved, the caller consumes queryPages() with the same sql
\* and options against the same server
QueryPagesAfterQuery ==
    /\ qpc = "done"
    /\ qopts.mode = "query"
    /\ ~prior.made
    /\ prior' = [made |-> TRUE, requests |-> requests, items |-> qresult.value.items]
    /\ qopts' = [qopts EXCEPT !.mode = "pages"]
    /\ currentOffset' = qopts.startOffset
    /\ totalYielded' = 0
    /\ requests' = <<>>
    /\ pageSizes' = <<>>
    /\ received' = <<>>
    /\ yielded' = <<>>
    /\ qpc' = "loop"
    /\ UNCHANGED <<awaited, server, allItems, totalResults, pagesFetched, page, qresult>>

\* queryPages: the loop head, to the call of transport.request or to the return
PagesLoop ==
    /\ qpc = "loop"
    /\ qopts.mode = "pages"
    /\ LET effectiveLimit == EffectiveLimit(qopts.pageSize, qopts.maxRows, totalYielded)
       IN IF effectiveLimit <= 0
          THEN /\ qpc' = "done"
               /\ requests' = requests
          ELSE /\ qpc' = "await"
               /\ requests' = Append(requests, PageRequest(effectiveLimit, currentOffset))
    /\ UNCHANGED <<awaited, prior, server, qopts, allItems, totalYielded, currentOffset, totalResults,
                   pagesFetched, page, pageSizes, received, yielded, qresult>>

\* queryPages: the transport resolved with a page; return if it is empty, else yield it
PagesPage ==
    /\ qpc = "await"
    /\ qopts.mode = "pages"
    /\ \E pg \in ServerPages(server, requests[Len(requests)].limit,
                             requests[Len(requests)].offset, Len(requests)) :
          /\ page' = pg
          /\ pageSizes' = Append(pageSizes, Len(pg.items))
          /\ received' = Append(received, pg)
          /\ IF Len(pg.items) = 0
             THEN /\ qpc' = "done"
                  /\ yielded' = yielded
             ELSE /\ qpc' = "yield"
                  /\ yielded' = Append(yielded, pg.items)
    /\ UNCHANGED <<awaited, prior, server, qopts, allItems, totalYielded, currentOffset, totalResults,
                   pagesFetched, requests, qresult>>

\* the generator resuming without advancing the offset
PagesResume_NoAdvance ==
    /\ qpc = "yield"
    /\ LET count == totalYielded + Len(page.items)
           hasMore == MorePages(page, currentOffset, page.totalResults)
       IN /\ totalYielded' = count
          /\ currentOffset' = currentOffset
          /\ IF ~hasMore \/ count >= qopts.maxRows
             THEN qpc' = "done"
             ELSE qpc' = "loop"
    /\ UNCHANGED <<awaited, prior, server, qopts, allItems, totalResults, pagesFetched, page, requests,
                   pageSizes, received, yielded, qresult>>

\* queryPages: the consumer pulls again; from the yield to the next loop head or the return
PagesResume ==
    /\ qpc = "yield"
    /\ LET count == totalYielded + Len(page.items)
           hasMore == MorePages(page, currentOffset, page.totalResults)
       IN /\ totalYielded' = count
          /\ IF ~hasMore \/ count >= qopts.maxRows
             THEN /\ qpc' = "done"
                  /\ currentOffset' = currentOffset
             ELSE /\ qpc' = "loop"
                  /\ currentOffset' = NextOffset(currentOffset, page)
    /\ UNCHANGED <<awaited, prior, server, qopts, allItems, totalResults, pagesFetched, page, requests,
                   pageSizes, received, yielded, qresult>>

(***************************************************************************)
(* Middleware chain executor (transport/middleware-chain.ts)               *)
(***************************************************************************)
\* longest interceptor list given to executeMiddlewareChain on its own
MaxChain == 3

VARIABLES
    middlewares,   \* the interceptors, in registration order (what each one does)
    context,       \* the RequestContext shared by the interceptors and the handler
    index,         \* executeMiddlewareChain: `let index`
    stack,         \* the interceptor and handler invocations that have not returned
    ret,           \* the promise the innermost awaiting invocation is waiting on
    trace          \* what ran, in order: enter / proceed / exit of interceptors, the handler

chainVars == <<middlewares, context, index, stack, ret, trace>>

\* What an interceptor does (types/middleware.ts: any function of (ctx, next)):
\*   pass       res = await next(); post-proceed code; return the transformed res
\*   setHeader  ctx.headers[...] = ...; then as pass
\*   short      return a response without calling next
\*   throw      throw before calling next
\*   again      await next(); then as pass (calls next a second time)
\*   retry      try { res = await next() } catch { res = await next() }; then as pass
\*   recover    try { res = await next() } catch { return a fallback response }; then as pass
\*   finally    try { as pass } finally { clean up }: the block runs on both paths
Interceptors == {"pass", "setHeader", "short", "throw", "again", "retry"}

\* the interceptors of the chain scenarios
ChainInterceptors == Interceptors \cup {"recover", "finally"}

RECURSIVE SeqsUpTo(_, _)
SeqsUpTo(S, n) ==
    IF n = 0 THEN {<<>>}
    ELSE LET shorter == SeqsUpTo(S, n - 1)
         IN shorter \cup { Append(q, x) : q \in shorter, x \in S }

EmptyRecord == [k \in {} |-> ""]

HeaderValue(text, nonce) == [text |-> text, nonce |-> nonce]

\* createContext() of the chain tests
createContext ==
    [url |-> "https://test.com", method |-> "GET", headers |-> EmptyRecord,
     body |-> Undefined, metadata |-> EmptyRecord]

\* createResponse() of the chain tests; via lists the interceptors whose
\* post-proceed code transformed the response, innermost first
createResponse ==
    [status |-> 200, headers |-> EmptyRecord, body |-> {("ok" :> "true")}, duration |-> 100,
     via |-> <<>>, from |-> 0]

\* the response interceptor i returns when it short-circuits
ShortResponse(i) ==
    [status |-> 403, headers |-> EmptyRecord, body |-> {("error" :> "denied")}, duration |-> 100,
     via |-> <<>>, from |-> i]

\* the response interceptor i returns when it recovers from a failure
FallbackResponse(i) ==
    [status |-> 200, headers |-> EmptyRecord, body |-> {("fallback" :> "true")}, duration |-> 100,
     via |-> <<>>, from |-> i]

\* post-proceed code of interceptor i: `return { ...res, <modified by i> }`
Transform(res, i) == [res EXCEPT !.via = Append(@, i)]

MiddlewareFrame(i) == [mw |-> i, at |-> "start"]
HandlerFrame == [mw |-> 0, at |-> "handler"]

Top == stack[Len(stack)]
Below == SubSeq(stack, 1, Len(stack) - 1)
TopAt(at) == [stack EXCEPT ![Len(stack)].at = at]

Event(ev, i) == [ev |-> ev, mw |-> i]

\* next() taking the interceptors from the end of the list
next_Reversed(idx, stk) ==
    IF idx >= Len(middlewares)
    THEN /\ index' = idx
         /\ stack' = Append(stk, HandlerFrame)
    ELSE /\ index' = idx + 1
         /\ stack' = Append(stk, MiddlewareFrame(Len(middlewares) - idx))

\* function next() of executeMiddlewareChain, called when `index` is idx and
\* the invocations stk are on the stack
next(idx, stk) ==
    IF idx >= Len(middlewares)
    THEN /\ index' = idx
         /\ stack' = Append(stk, HandlerFrame)
    ELSE /\ index' = idx + 1
         /\ stack' = Append(stk, MiddlewareFrame(idx + 1))

\* an interceptor runs from its first statement to its first `await next()`,
\* its return or its throw
MiddlewareEnter ==
    /\ stack # <<>>
    /\ Top.mw > 0
    /\ Top.at = "start"
    /\ LET i == Top.mw
           kind == middlewares[i]
       IN CASE kind = "short" ->
                 /\ trace' = Append(trace, Event("enter", i))
                 /\ stack' = Below
                 /\ ret' = Resolved(ShortResponse(i))
                 /\ UNCHANGED <<index, context>>
            [] kind = "throw" ->
                 /\ trace' = Append(trace, Event("enter", i))
                 /\ stack' = Below
                 /\ ret' = Rejected(PlainError("middleware error", i))
                 /\ UNCHANGED <<index, context>>
            [] kind = "setHeader" ->
                 /\ trace' = trace \o <<Event("enter", i), Event("proceed", i)>>
                 /\ context' = [context EXCEPT !.headers =
                                   Spread(@, ("Authorization" :> HeaderValue("custom", 0)))]
                 /\ next(index, TopAt("await1"))
                 /\ ret' = ret
            [] OTHER ->
                 /\ trace' = trace \o <<Event("enter", i), Event("proceed", i)>>
                 /\ next(index, TopAt("await1"))
                 /\ UNCHANGED <<context, ret>>
    /\ UNCHANGED middlewares

\* the promise an interceptor awaits has settled: it calls next again, runs its
\* post-proceed code and returns, returns a fallback response, or lets the
\* rejection propagate (through its finally block, if it has one)
MiddlewareResume ==
    /\ stack # <<>>
    /\ Top.mw > 0
    /\ Top.at \in {"await1", "await2"}
    /\ ret.kind # "pending"
    /\ LET i == Top.mw
           kind == middlewares[i]
           proceedAgain ==
               /\ Top.at = "await1"
               /\ \/ kind = "again" /\ ret.kind = "ok"
                  \/ kind = "retry" /\ ret.kind = "err"
       IN IF proceedAgain
          THEN /\ next(index, TopAt("await2"))
               /\ ret' = Pending
               /\ trace' = Append(trace, Event("proceed", i))
          ELSE /\ stack' = Below
               /\ index' = index
               /\ IF ret.kind = "ok"
                  THEN /\ trace' = IF kind = "finally"
                                   THEN trace \o <<Event("exit", i), Event("finally", i)>>
                                   ELSE Append(trace, Event("exit", i))
                       /\ ret' = Resolved(Transform(ret.value, i))
                  ELSE IF kind = "recover"
                  THEN /\ trace' = Append(trace, Event("catch", i))
                       /\ ret' = Resolved(FallbackResponse(i))
                  ELSE /\ trace' = IF kind = "finally" THEN Append(trace, Event("finally", i))
                                   ELSE trace
                       /\ ret' = ret
    /\ UNCHANGED <<middlewares, context>>

\* executeMiddlewareChain with the handler invoked whatever the interceptors did
ChainCall_AlwaysHandler ==
    /\ stack = <<>>
    /\ ret = Pending
    /\ index = 0
    /\ trace = <<>>
    /\ IF Len(middlewares) = 0
       THEN /\ stack' = <<HandlerFrame>>
            /\ index' = index
       ELSE /\ stack' = <<HandlerFrame, MiddlewareFrame(1)>>
            /\ index' = Len(middlewares)
    /\ UNCHANGED <<middlewares, context, ret, trace>>

\* executeMiddlewareChain(middlewares, context, finalHandler): `let index = 0; return next()`
ChainCall ==
    /\ stack = <<>>
    /\ ret = Pending
    /\ index = 0
    /\ trace = <<>>
    /\ next(0, <<>>)
    /\ UNCHANGED <<middlewares, context, ret, trace>>

\* the terminal handler of the chain tests: a mock that resolves or rejects
MockHandler ==
    /\ stack # <<>>
    /\ Top = HandlerFrame
    /\ stack' = Below
    /\ trace' = Append(trace, Event("handler", 0))
    /\ \/ ret' = Resolved(createResponse)
       \/ ret' = Rejected(PlainError("handler error", 0))
    /\ UNCHANGED <<middlewares, context, index>>

ChainSettled == stack = <<>> /\ ret.kind # "pending"

(***************************************************************************)
(* Utilities: account identifiers (utils/validation.ts), the sliding-      *)
(* window rate limiter and the response cache (utils/response-cache.ts)    *)
(***************************************************************************)
\* longest account identifier
MaxIdLen == 3
\* most advances of the clock
MaxTicks == 3
\* most requests recorded on a rate limiter
MaxRecords == 3
\* largest maxRequests a rate limiter is built with
MaxLimit == 2

VARIABLES
    accountId,    \* the account identifier handed to the builders, a sequence of characters
    norm,         \* normalizeAccountId applied to it, and then to its own result
    urls,         \* the base URL each client and builder made of it
    now,          \* Date.now()
    ticks,        \* number of advances of the clock
    limiter,      \* RateLimiter: maxRequests and windowMs
    timestamps,   \* RateLimiter.timestamps
    recorded,     \* the time of every recordRequest call
    ungated,      \* a request was recorded while canMakeRequest() was false
    answer,       \* the last query made of the rate limiter and its result
    cache,        \* ResponseCache.cache: key -> [data, expiresAt]
    lastSet,      \* per key, the most recent set() not followed by delete() or clear()
    got           \* the last get(): its key, time and result, and what it found

accountVars == <<accountId, norm, urls>>
clockVars == <<now, ticks>>
limiterVars == <<limiter, timestamps, recorded, ungated, answer>>
cacheVars == <<cache, lastSet, got>>
utilVars == <<accountVars, clockVars, limiterVars, cacheVars>>

\* the characters an account identifier is made of here: an upper-case letter,
\* a lower-case letter, a digit, the underscore and the hyphen
Chars == {"A", "b", "1", "_", "-"}

AccountIds == SeqsUpTo(Chars, MaxIdLen)

\* String.prototype.toLowerCase
toLowerCase(str) == [i \in 1 .. Len(str) |-> IF str[i] = "A" THEN "a" ELSE str[i]]

\* a replace that stops after the first match (no g flag)
ReplaceUnderscores_FirstOnly(str) ==
    [i \in 1 .. Len(str) |->
        IF str[i] = "_" /\ \A j \in 1 .. (i - 1) : str[j] # "_" THEN "-" ELSE str[i]]

\* .replace(/_/g, '-')
ReplaceUnderscores(str) == [i \in 1 .. Len(str) |-> IF str[i] = "_" THEN "-" ELSE str[i]]

\* normalizeAccountId(accountId)
normalizeAccountId(id) == ReplaceUnderscores(toLowerCase(id))

\* a URL as the pieces its template literal joins
SuiteTalkDomain == ".suitetalk.api.netsuite.com"
RestletDomain == ".restlets.api.netsuite.com"

\* buildSuiteTalkUrl(accountId)
buildSuiteTalkUrl(id) == <<"https://">> \o normalizeAccountId(id) \o <<SuiteTalkDomain>>

\* buildRestletUrl(accountId)
buildRestletUrl(id) == <<"https://">> \o normalizeAccountId(id) \o <<RestletDomain>>

\* SuiteQLClient.constructor: this.baseUrl
SuiteQLBaseUrl(id) ==
    LET normalizedId == ReplaceUnderscores(toLowerCase(id))
    IN <<"https://">> \o normalizedId \o <<SuiteTalkDomain, "/services/rest/query/v1/suiteql">>

\* RecordClient.constructor: this.baseUrl
RecordBaseUrl(id) ==
    LET normalizedId == ReplaceUnderscores(toLowerCase(id))
    IN <<"https://">> \o normalizedId \o <<SuiteTalkDomain, "/services/rest/record/v1">>

\* RestletClient.constructor: this.baseUrl
RestletBaseUrl(id) ==
    LET normalizedId == ReplaceUnderscores(toLowerCase(id))
    IN <<"https://">> \o normalizedId \o <<RestletDomain, "/app/site/hosting/restlet.nl">>

\* the five places a host is built from an account identifier
Builders == {"SuiteQLClient", "RecordClient", "RestletClient", "buildSuiteTalkUrl", "buildRestletUrl"}

BuiltBy(b, id) ==
    CASE b = "SuiteQLClient"     -> SuiteQLBaseUrl(id)
      [] b = "RecordClient"      -> RecordBaseUrl(id)
      [] b = "RestletClient"     -> RestletBaseUrl(id)
      [] b = "buildSuiteTalkUrl" -> buildSuiteTalkUrl(id)
      [] b = "buildRestletUrl"   -> buildRestletUrl(id)

\* nothing built yet from the identifier id
AccountIdle(id) ==
    /\ accountId = id
    /\ norm = <<>>
    /\ urls = [b \in Builders |-> Undefined]

\* normalizeAccountId is called on the identifier, or again on its last result
NormalizeAccountId ==
    /\ Len(norm) < 2
    /\ norm' = Append(norm, normalizeAccountId(IF norm = <<>> THEN accountId ELSE norm[Len(norm)]))
    /\ UNCHANGED <<accountId, urls>>

\* one of the clients is constructed, or one of the URL builders called
Build(b) ==
    /\ urls[b] = Undefined
    /\ urls' = [urls EXCEPT ![b] = {BuiltBy(b, accountId)}]
    /\ UNCHANGED <<accountId, norm>>

NewSuiteQLClient == Build("SuiteQLClient")
NewRecordClient == Build("RecordClient")
NewRestletClient == Build("RestletClient")
BuildSuiteTalkUrl == Build("buildSuiteTalkUrl")
BuildRestletUrl == Build("buildRestletUrl")

\* vi.useFakeTimers(): the clock starts at 0 and moves only when advanced
ClockIdle == now = 0 /\ ticks = 0

\* what vi.advanceTimersByTime is called with
Steps == {1, 999}

\* vi.advanceTimersByTime(d)
Tick ==
    /\ ticks < MaxTicks
    /\ ticks' = ticks + 1
    /\ \E d \in Steps : now' = now + d

\* constructor(maxRequests = 100, windowMs = 60_000)
RateLimiter(maxRequests, windowMs) ==
    [maxRequests |-> Default(maxRequests, 100), windowMs |-> Default(windowMs, 60000)]

\* the window lengths of the scenarios, in ms
Windows == {2, 1000}

\* the rate limiters of the scenarios
RateLimiters ==
    { RateLimiter({m}, {w}) : m \in 0 .. MaxLimit, w \in Windows }
    \cup { RateLimiter(Undefined, Undefined) }

\* a prune that keeps a request recorded exactly windowMs ago
RECURSIVE pruneExpired_Late(_, _, _)
pruneExpired_Late(ts, t, windowMs) ==
    IF ts # <<>> /\ ts[1] < t - windowMs
    THEN pruneExpired_Late(Tail(ts), t, windowMs)
    ELSE ts

\* pruneExpired(): drop the leading timestamps that are <= Date.now() - windowMs
RECURSIVE pruneExpired(_, _, _)
pruneExpired(ts, t, windowMs) ==
    IF ts # <<>> /\ ts[1] <= t - windowMs
    THEN pruneExpired(Tail(ts), t, windowMs)
    ELSE ts

\* the result of a query of the rate limiter: a boolean or a number, with the
\* time of the query and the number of requests recorded before it
Answer(op, ok, n) ==
    [op |-> op, ok |-> ok, n |-> n, nan |-> FALSE, at |-> now, seen |-> Len(recorded)]

\* a query that returned NaN
AnswerNaN(op) ==
    [op |-> op, ok |-> FALSE, n |-> 0, nan |-> TRUE, at |-> now, seen |-> Len(recorded)]

NoAnswer == [op |-> "none", ok |-> FALSE, n |-> 0, nan |-> FALSE, at |-> 0, seen |-> 0]

\* a rate limiter l just built
LimiterIdle(l) ==
    /\ limiter = l
    /\ timestamps = <<>>
    /\ recorded = <<>>
    /\ ungated = FALSE
    /\ answer = NoAnswer

\* canMakeRequest()
CanMakeRequest ==
    LET ts == pruneExpired(timestamps, now, limiter.windowMs)
    IN /\ timestamps' = ts
       /\ answer' = Answer("canMakeRequest", Len(ts) < limiter.maxRequests, 0)
       /\ UNCHANGED <<limiter, recorded, ungated>>

\* recordRequest()
RecordRequest ==
    /\ Len(recorded) < MaxRecords
    /\ LET ts == pruneExpired(timestamps, now, limiter.windowMs)
       IN /\ timestamps' = Append(ts, now)
          /\ ungated' = (ungated \/ ~(Len(ts) < limiter.maxRequests))
    /\ recorded' = Append(recorded, now)
    /\ UNCHANGED <<limiter, answer>>

\* getRemainingRequests()
GetRemainingRequests ==
    LET ts == pruneExpired(timestamps, now, limiter.windowMs)
        left == limiter.maxRequests - Len(ts)
    IN /\ timestamps' = ts
       /\ answer' = Answer("getRemainingRequests", FALSE, IF left > 0 THEN left ELSE 0)
       /\ UNCHANGED <<limiter, recorded, ungated>>

\* getTimeUntilNextSlot(); with no timestamp left `oldest` is undefined and
\* Math.max(0, undefined + windowMs - Date.now()) is NaN
GetTimeUntilNextSlot ==
    LET ts == pruneExpired(timestamps, now, limiter.windowMs)
    IN /\ timestamps' = ts
       /\ answer' =
             IF Len(ts) < limiter.maxRequests
             THEN Answer("getTimeUntilNextSlot", FALSE, 0)
             ELSE IF ts = <<>>
             THEN AnswerNaN("getTimeUntilNextSlot")
             ELSE LET oldest == ts[1]
                      wait == oldest + limiter.windowMs - now
                  IN Answer("getTimeUntilNextSlot", FALSE, IF wait > 0 THEN wait ELSE 0)
       /\ UNCHANGED <<limiter, recorded, ungated>>

\* the keys, values and TTLs (in seconds) of the cache scenarios
Keys == {"key1", "key2"}
Values == {"value1", "value2"}
Ttls == {0, 1}

\* what is written under each key: two values under key1, one under key2
ValuesOf(k) == IF k = "key1" THEN Values ELSE {"value2"}

\* a value returned by get(), as opposed to null
Hit(v) == {v}

\* an entry that expires ttlSeconds milliseconds after it was set
ExpiresAt_NoScale(t, ttlSeconds) == t + ttlSeconds

\* Date.now() + ttlSeconds * 1000
ExpiresAt(t, ttlSeconds) == t + ttlSeconds * 1000

\* Date.now() > entry.expiresAt
Expired(t, entry) == t > entry.expiresAt

\* get size(): the number of entries of the map
Size(c) == Cardinality({ k \in Keys : c[k] # Undefined })

\* new ResponseCache()
CacheIdle ==
    /\ cache = [k \in Keys |-> Undefined]
    /\ lastSet = [k \in Keys |-> Undefined]
    /\ got = Undefined

\* set(key, data, ttlSeconds)
CacheSet ==
    /\ \E k \in Keys, ttlSeconds \in Ttls : \E v \in ValuesOf(k) :
          /\ cache' = [cache EXCEPT ![k] = {[data |-> v, expiresAt |-> ExpiresAt(now, ttlSeconds)]}]
          /\ lastSet' = [lastSet EXCEPT ![k] = {[data |-> v, at |-> now, ttl |-> ttlSeconds]}]
    /\ got' = got

\* get(key)
CacheGet ==
    /\ \E k \in Keys :
          LET found == cache[k] # Undefined
              entry == CHOOSE e \in cache[k] : TRUE
              after == IF found /\ Expired(now, entry)
                       THEN [cache EXCEPT ![k] = Undefined] ELSE cache
              value == IF ~found THEN Null
                       ELSE IF Expired(now, entry) THEN Null
                       ELSE Hit(entry.data)
          IN /\ cache' = after
             /\ got' = {[key |-> k, at |-> now, value |-> value, written |-> lastSet[k],
                         holds |-> after[k] # Undefined,
                         sizeBefore |-> Size(cache), sizeAfter |-> Size(after)]}
    /\ lastSet' = lastSet

\* delete(key)
CacheDelete ==
    /\ \E k \in Keys :
          /\ cache' = [cache EXCEPT ![k] = Undefined]
          /\ lastSet' = [lastSet EXCEPT ![k] = Undefined]
    /\ got' = got

\* clear()
CacheClear ==
    /\ cache' = [k \in Keys |-> Undefined]
    /\ lastSet' = [k \in Keys |-> Undefined]
    /\ got' = got

(***************************************************************************)
(* Request signer (transport/oauth.ts)                                     *)
(***************************************************************************)
\* a signer that keeps returning the header it computed first
sign_Cached(n) == ("Authorization" :> HeaderValue("OAuth", 1))

\* The signer returned by createOAuthSigner.  oauth.authorize draws a random
\* 32-character nonce on every call; n is the number of nonces drawn so far and
\* the value drawn next is written n + 1.
sign(n) == ("Authorization" :> HeaderValue("OAuth", n + 1))

(***************************************************************************)
(* Transport (transport/http-transport.ts)                                 *)
(***************************************************************************)
\* longest interceptor list registered on a transport
MaxTransportChain == 1
\* most network calls one call of request() makes
MaxSends == 4
\* most network calls one call of request() makes on a transport with interceptors
MaxChainSends == 2

VARIABLES
    config,    \* HttpTransport.config (ResolvedConfig)
    options,   \* the RequestOptions of the request in progress
    nonces,    \* number of nonces the signer has drawn
    sends,     \* the requests handed to axios, in order, each with the number of its
               \* attempt and, once axios has settled it, its outcome and result
    seen,      \* the statuses axios has answered with (0: it threw)
    lateUses   \* number of use() calls made while a request was in flight

transportVars == <<config, options, nonces, sends, seen, lateUses>>

\* most request() calls in flight on one transport at a time
MaxConcurrent == 2
\* largest maxRetries of the first of the calls in flight; the others make
\* one attempt
MaxConcRetries == 1

VARIABLES
    heap,       \* the header and metadata objects of the contexts, by address
    inflight,   \* per concurrent request() call: where it is, its attempt, its context
    handed,     \* what the context of each attempt held when the chain was handed it
    wire        \* the header sets handed to axios, each with the attempt that sent it

concVars == <<heap, inflight, handed, wire>>

\* what the injected logger does: absent, logs quietly, or one method throws
Loggers == {"none", "quiet", "debugThrows", "infoThrows", "warnThrows"}

\* constructor(config): the defaults of ResolvedConfig
HttpTransport(cfg) ==
    [timeout |-> Coalesce(cfg.timeout, 30000),
     maxRetries |-> Coalesce(cfg.maxRetries, 3),
     retryDelay |-> Coalesce(cfg.retryDelay, 1000),
     defaultHeaders |-> Coalesce(cfg.defaultHeaders, EmptyRecord),
     logger |-> cfg.logger]

\* the NetSuiteConfig objects a transport is built from
NetSuiteConfigs ==
    { [timeout |-> absent, maxRetries |-> m, retryDelay |-> absent,
       defaultHeaders |-> absent, logger |-> l] :
          absent \in {Undefined, Null}, m \in {{0}}, l \in Loggers }

Url == "https://test.com/api"

NoOptions ==
    [method |-> Undefined, headers |-> Undefined, body |-> Undefined,
     timeout |-> Undefined, maxRetries |-> Undefined]

\* the RequestOptions a caller passes
RequestOptions ==
    { [NoOptions EXCEPT !.maxRetries = m] :
          m \in {Undefined, Null} \cup { {n} : n \in -1 .. MaxRetriesBound } }
    \cup { [NoOptions EXCEPT !.maxRetries = {n},
                             !.headers = {("Authorization" :> HeaderValue("per-call", 0))}] :
               n \in 0 .. 1 }
    \cup { [NoOptions EXCEPT !.maxRetries = {0}, !.method = {m}, !.body = {("name" :> "test")}] :
               m \in {"GET", "POST"} }

\* what axios.request does with one request: a response (validateStatus accepts
\* every status) or a thrown AxiosError
AxiosResponse(status, data) == [kind |-> "response", status |-> status, data |-> data, code |-> ""]
AxiosError(code) == [kind |-> "error", status |-> 0, data |-> Undefined, code |-> code]

NetOutcomes ==
    { AxiosResponse(200, {("id" :> "1")}),
      AxiosResponse(204, {("id" :> "1")}),
      AxiosResponse(304, Undefined),
      AxiosResponse(404, {("title" :> "Not Found") @@ ("o:errorCode" :> "RCRD_DSNT_EXIST")}),
      AxiosResponse(404, {("o:errorCode" :> "TIMEOUT")}),
      AxiosResponse(401, Undefined),
      AxiosResponse(500, Undefined),
      AxiosError("ECONNABORTED"),
      AxiosError("ECONNREFUSED") }

\* errorBody.<name>, undefined when the body has no such field
Field(errorBody, name) == IF name \in DOMAIN errorBody THEN {errorBody[name]} ELSE Undefined

\* use(middleware): the list after one more registration
use(mws, mw) == Append(mws, mw)

\* the interceptor lists that at most n calls of use() build
RECURSIVE Registered(_)
Registered(n) ==
    IF n = 0 THEN {<<>>}
    ELSE Registered(n - 1) \cup { use(mws, mw) : mws \in Registered(n - 1), mw \in Interceptors }

\* The transports a request is made on: any logger with no interceptor, any
\* interceptors with no logger, an interceptor that throws with a logger whose
\* warn throws, or one that short-circuits behind one that proceeds twice.
TransportSetups ==
    { [config |-> HttpTransport(cfg), middlewares |-> <<>>] : cfg \in NetSuiteConfigs }
    \cup { [config |-> HttpTransport(cfg), middlewares |-> mws] :
               cfg \in { c \in NetSuiteConfigs : c.logger = "none" },
               mws \in Registered(MaxTransportChain) }
    \cup { [config |-> HttpTransport(cfg), middlewares |-> use(<<>>, "throw")] :
               cfg \in { c \in NetSuiteConfigs : c.logger = "warnThrows" } }
    \cup { [config |-> HttpTransport(cfg), middlewares |-> use(use(<<>>, "again"), "short")] :
               cfg \in { c \in NetSuiteConfigs : c.logger = "none" } }

\* the ways a call of next() ends when `index` is idx: the calls of the final
\* handler it led to, the `index` it leaves and whether its promise resolved
RECURSIVE NextOutcomes(_, _)
NextOutcomes(mws, idx) ==
    IF idx >= Len(mws)
    THEN { [calls |-> 1, index |-> idx, ok |-> ok] : ok \in BOOLEAN }
    ELSE LET kind == mws[idx + 1]
             first == NextOutcomes(mws, idx + 1)
             Second(r) == { [calls |-> r.calls + s.calls, index |-> s.index, ok |-> s.ok] :
                               s \in NextOutcomes(mws, r.index) }
         IN CASE kind = "short" -> {[calls |-> 0, index |-> idx + 1, ok |-> TRUE]}
              [] kind = "throw" -> {[calls |-> 0, index |-> idx + 1, ok |-> FALSE]}
              [] kind = "again" -> UNION { IF r.ok THEN Second(r) ELSE {r} : r \in first }
              [] kind = "retry" -> UNION { IF r.ok THEN {r} ELSE Second(r) : r \in first }
              [] kind = "recover" -> { [r EXCEPT !.ok = TRUE] : r \in first }
              [] OTHER -> first

\* the most network calls one attempt makes on a transport with the interceptors
\* mws, over every way the network answers
CallsPerAttempt(mws) ==
    LET counts == { r.calls : r \in NextOutcomes(mws, 0) }
    IN CHOOSE n \in counts : \A m \in counts : m <= n

\* a request with the given maxRetries on a transport with the interceptors mws
\* makes no more network calls than the scenarios allow
SendsWithin(mws, maxRetries) ==
    (maxRetries + 1) * CallsPerAttempt(mws) <= (IF mws = <<>> THEN MaxSends ELSE MaxChainSends)

\* the requests made on a transport with the interceptors mws
RequestsOn(mws, defaultRetries) ==
    { o \in RequestOptions : SendsWithin(mws, Coalesce(o.maxRetries, defaultRetries)) }

\* request(url, options) for some options of optionSet, up to the loop of withRetry
request(optionSet) ==
    /\ rpc = "idle"
    /\ \E o \in optionSet :
          /\ options' = o
          /\ withRetry([maxRetries |-> Coalesce(o.maxRetries, config.maxRetries),
                        initialDelay |-> config.retryDelay,
                        shouldRetry |-> "transport",
                        onRetry |-> IF config.logger = "warnThrows" THEN "throws" ELSE "returns"])
    /\ UNCHANGED <<config, nonces, sends, seen, lateUses, fnLog>>
    /\ UNCHANGED <<chainVars, queryVars, utilVars, concVars>>

\* the requests made on a transport with the given logger: with a logger
\* configured, those that ask for at most one retry
RequestsWith(logger, optionSet) ==
    IF logger = "none" THEN optionSet
    ELSE { o \in optionSet : Nullish(o.maxRetries) \/ \A n \in o.maxRetries : n <= 1 }

\* a request on the transport of the retry scenarios
Request == request(RequestsWith(config.logger, RequestsOn(middlewares, config.maxRetries)))

\* the merge with the auth headers spread last
MergeHeaders_AuthLast(defaultHeaders, authHeaders, perCall) ==
    Spread(Spread(Spread(("Content-Type" :> HeaderValue("application/json", 0)),
                         defaultHeaders),
                  perCall),
           authHeaders)

\* { 'Content-Type': 'application/json', ...defaultHeaders, ...authHeaders, ...options.headers }
MergeHeaders(defaultHeaders, authHeaders, perCall) ==
    Spread(Spread(Spread(("Content-Type" :> HeaderValue("application/json", 0)),
                         defaultHeaders),
                  authHeaders),
           perCall)

\* the operation request() hands to withRetry, from its first statement to the
\* call of executeMiddlewareChain: sign, merge the headers, build the context
Attempt ==
    /\ rpc = "fn"
    /\ stack = <<>>
    /\ ret = Pending
    /\ LET method == Coalesce(options.method, "GET")
           authHeaders == sign(nonces)
           headers == MergeHeaders(config.defaultHeaders, authHeaders,
                                   Coalesce(options.headers, EmptyRecord))
       IN /\ nonces' = nonces + 1
          /\ context' = [url |-> Url, method |-> method, headers |-> headers,
                         body |-> options.body, metadata |-> EmptyRecord]
          /\ trace' = Append(trace, Event("sign", calls))
          /\ next(0, <<>>)
    /\ UNCHANGED <<middlewares, ret, config, options, sends, seen, lateUses>>
    /\ UNCHANGED <<retryVars, queryVars, utilVars, concVars>>

\* a JavaScript primitive passed where the type is `unknown`
Primitive(type, text) == [type |-> type, text |-> text]

\* the primitives JavaScript converts to false, undefined and null apart
Falsy ==
    { Primitive("number", "0"), Primitive("number", "-0"), Primitive("number", "NaN"),
      Primitive("bigint", "0"), Primitive("string", ""), Primitive("boolean", "false") }

\* `context.body && ...`: the body converted to a boolean
ToBoolean(body) == ~Nullish(body) /\ \A v \in body : v \notin Falsy

\* a request that carries the body whatever the method
WireRequest_AlwaysBody(ctx, timeout) ==
    [url |-> ctx.url, method |-> ctx.method, headers |-> ctx.headers,
     data |-> ctx.body, timeout |-> timeout]

\* the request executeRequest hands to axios
WireRequest(ctx, timeout) ==
    [url |-> ctx.url, method |-> ctx.method, headers |-> ctx.headers,
     data |-> IF ToBoolean(ctx.body) /\ ctx.method \in {"POST", "PUT", "PATCH"}
              THEN ctx.body ELSE Undefined,
     timeout |-> timeout]

\* a catch block that reports every failure without a response as NETWORK_ERROR
CatchNetwork_NoTimeout(code, message, ctx, timeout, id) ==
    NetSuiteError(message, 0, "NETWORK_ERROR", Undefined, {ctx.url}, {ctx.method}, id)

\* the catch block of executeRequest for an error that is not a NetSuiteError
CatchNetwork(code, message, ctx, timeout, id) ==
    IF code \in {"ECONNABORTED", "ERR_CANCELED"}
    THEN NetSuiteError("Request timed out after " \o ToString(timeout) \o "ms", 504, "TIMEOUT",
                       Undefined, {ctx.url}, {ctx.method}, id)
    ELSE NetSuiteError(message, 0, "NETWORK_ERROR", Undefined, {ctx.url}, {ctx.method}, id)

\* executeRequest returning the payload of a 204 response
Classify_KeepsBody(o, ctx, timeout, logger, id) ==
    IF o.kind = "error"
    THEN Rejected(CatchNetwork(o.code, "Network error", ctx, timeout, id))
    ELSE IF o.status >= 400
    THEN LET errorBody == Coalesce(o.data, EmptyRecord)
             message == Coalesce(Field(errorBody, "detail"),
                          Coalesce(Field(errorBody, "title"),
                            Coalesce(Field(errorBody, "message"),
                                     "HTTP " \o ToString(o.status))))
             code == Coalesce(Field(errorBody, "o:errorCode"),
                       Coalesce(Field(errorBody, "code"),
                                "HTTP_" \o ToString(o.status)))
         IN Rejected(NetSuiteError(message, o.status, code, {errorBody},
                                   {ctx.url}, {ctx.method}, id))
    ELSE Resolved([status |-> o.status, headers |-> EmptyRecord,
                   body |-> o.data,
                   duration |-> 0, via |-> <<>>, from |-> 0])

\* executeRequest reading the title before the detail and the generic code
\* before the service's
Classify_WrongOrder(o, ctx, timeout, logger, id) ==
    IF o.kind = "error"
    THEN Rejected(CatchNetwork(o.code, "Network error", ctx, timeout, id))
    ELSE IF o.status >= 400
    THEN LET errorBody == Coalesce(o.data, EmptyRecord)
             message == Coalesce(Field(errorBody, "title"),
                          Coalesce(Field(errorBody, "detail"),
                            Coalesce(Field(errorBody, "message"),
                                     "HTTP " \o ToString(o.status))))
             code == Coalesce(Field(errorBody, "code"),
                       Coalesce(Field(errorBody, "o:errorCode"),
                                "HTTP_" \o ToString(o.status)))
         IN Rejected(NetSuiteError(message, o.status, code, {errorBody},
                                   {ctx.url}, {ctx.method}, id))
    ELSE Resolved([status |-> o.status, headers |-> EmptyRecord,
                   body |-> IF o.status = 204 THEN Undefined ELSE o.data,
                   duration |-> 0, via |-> <<>>, from |-> 0])

\* executeRequest after axios has produced outcome o: what it returns or throws
Classify(o, ctx, timeout, logger, id) ==
    IF o.kind = "error"
    THEN Rejected(CatchNetwork(o.code, "Network error", ctx, timeout, id))
    ELSE IF logger = "infoThrows"
    THEN Rejected(CatchNetwork("", "logger.info failed", ctx, timeout, id))
    ELSE IF o.status >= 400
    THEN LET errorBody == Coalesce(o.data, EmptyRecord)
             message == Coalesce(Field(errorBody, "detail"),
                          Coalesce(Field(errorBody, "title"),
                            Coalesce(Field(errorBody, "message"),
                                     "HTTP " \o ToString(o.status))))
             code == Coalesce(Field(errorBody, "o:errorCode"),
                       Coalesce(Field(errorBody, "code"),
                                "HTTP_" \o ToString(o.status)))
         IN Rejected(NetSuiteError(message, o.status, code, {errorBody},
                                   {ctx.url}, {ctx.method}, id))
    ELSE Resolved([status |-> o.status, headers |-> EmptyRecord,
                   body |-> IF o.status = 204 THEN Undefined ELSE o.data,
                   duration |-> 0, via |-> <<>>, from |-> 0])

\* the invocation of executeRequest whose network call is pending
NetworkFrame == [mw |-> 0, at |-> "network"]

\* a network call axios has not settled yet
Unanswered == [kind |-> "pending", status |-> 0, data |-> Undefined, code |-> ""]

\* executeRequest(context, timeout), the terminal handler of the chain, from its
\* first statement to `await this.axiosInstance.request(...)`: logger.debug,
\* then the request is handed to axios
executeRequest ==
    /\ stack # <<>>
    /\ Top = HandlerFrame
    /\ trace' = Append(trace, Event("handler", 0))
    /\ LET timeout == Coalesce(options.timeout, config.timeout)
           id == Len(trace) + 1
       IN IF config.logger = "debugThrows"
          THEN /\ stack' = Below
               /\ ret' = Rejected(CatchNetwork("", "logger.debug failed", context, timeout, id))
               /\ sends' = sends
          ELSE /\ stack' = TopAt("network")
               /\ sends' = Append(sends, [att |-> calls,
                                           request |-> WireRequest(context, timeout),
                                           outcome |-> Unanswered,
                                           result |-> Pending])
               /\ ret' = ret
    /\ UNCHANGED <<middlewares, context, index, config, options, nonces, seen, lateUses>>
    /\ UNCHANGED <<retryVars, queryVars, utilVars, concVars>>

\* the pending network call settles with one of outcomes and executeRequest
\* runs from the await to its return or throw
executeRequestResumes(outcomes) ==
    /\ stack # <<>>
    /\ Top = NetworkFrame
    /\ stack' = Below
    /\ \E o \in outcomes :
          LET last == Len(sends)
              result == Classify(o, context, sends[last].request.timeout, config.logger,
                                 Len(trace))
          IN /\ sends' = [sends EXCEPT ![last].outcome = o, ![last].result = result]
             /\ seen' = seen \cup {o.status}
             /\ ret' = result
    /\ UNCHANGED <<middlewares, context, index, trace, config, options, nonces, lateUses>>
    /\ UNCHANGED <<retryVars, queryVars, utilVars, concVars>>

\* the network of the retry scenarios settles the pending call
ExecuteRequestResumes == executeRequestResumes(NetOutcomes)

\* most registrations of an interceptor made while a request is in flight
MaxLateUses == 1

\* the request in flight is suspended at an await (the network call, the
\* backoff timer, or a promise that has settled and whose continuation has
\* not run yet), so another callback can run
Suspended ==
    \/ rpc = "sleep"
    \/ stack # <<>> /\ Top.at \notin {"start", "handler"}
    \/ stack = <<>> /\ ret # Pending

\* use(middleware), for a middleware of kinds, called by another callback
\* while a request is in flight: `this.middlewares.push(middleware)` on the
\* list next() reads.  The registrations before the request are those of the
\* transport's setup; the late ones are made on a transport without a logger
\* that holds at most MaxTransportChain interceptors, during a request whose
\* maxRetries is one of retries.
useLate(kinds, retries) ==
    /\ Suspended
    /\ lateUses < MaxLateUses
    /\ Len(middlewares) <= MaxTransportChain
    /\ opts.maxRetries \in retries
    /\ config.logger = "none"
    /\ \E mw \in kinds :
          /\ SendsWithin(use(middlewares, mw), opts.maxRetries)
          /\ middlewares' = use(middlewares, mw)
    /\ lateUses' = lateUses + 1
    /\ UNCHANGED <<context, index, stack, ret, trace>>
    /\ UNCHANGED <<config, options, nonces, sends, seen>>
    /\ UNCHANGED <<retryVars, queryVars, utilVars, concVars>>

\* a late registration of any interceptor during a request that asks for at
\* most one retry
Use == useLate(Interceptors, {0, 1})

\* a request() that classifies the status of whatever the chain returned
AttemptReturns_Classified ==
    /\ ChainSettled
    /\ ret.kind = "ok"
    /\ IF ret.value.status >= 400
       THEN CatchBlock(NetSuiteError("HTTP error", ret.value.status, "HTTP_ERROR", Undefined,
                                     Undefined, Undefined, calls),
                       {0, RandDen - 1})
       ELSE ReturnResult([data |-> ret.value.body, status |-> ret.value.status,
                          headers |-> ret.value.headers, duration |-> ret.value.duration])
    /\ ret' = Pending
    /\ UNCHANGED <<middlewares, context, index, stack, trace, fnLog>>
    /\ UNCHANGED <<transportVars, queryVars, utilVars, concVars>>

\* the chain resolved: the operation returns the NetSuiteResponse
AttemptReturns ==
    /\ ChainSettled
    /\ ret.kind = "ok"
    /\ ReturnResult([data |-> ret.value.body, status |-> ret.value.status,
                     headers |-> ret.value.headers, duration |-> ret.value.duration])
    /\ ret' = Pending
    /\ UNCHANGED <<middlewares, context, index, stack, trace, fnLog>>
    /\ UNCHANGED <<transportVars, queryVars, utilVars, concVars>>

\* the chain rejected: the catch block of withRetry; Math.random() returns its
\* least or its greatest value
AttemptThrows ==
    /\ ChainSettled
    /\ ret.kind = "err"
    /\ CatchBlock(ret.error, {0, RandDen - 1})
    /\ ret' = Pending
    /\ UNCHANGED <<middlewares, context, index, stack, trace, fnLog>>
    /\ UNCHANGED <<transportVars, queryVars, utilVars, concVars>>

(***************************************************************************)
(* One request on a transport, over every method, body, header set and      *)
(* response body (as in the transport tests)                               *)
(***************************************************************************)
Methods == {"GET", "POST", "PUT", "PATCH", "DELETE"}

\* the fields executeRequest reads from an error body, each with its own value
ErrorFields == {"detail", "title", "message", "o:errorCode", "code"}

FieldText == [f \in ErrorFields |-> "the " \o f]

\* the payloads a response carries: none, null, or an object with any of the fields
Payloads == {Undefined, Null} \cup { {[f \in D |-> FieldText[f]]} : D \in SUBSET ErrorFields }

ResponseStatuses == {200, 204, 400, 403, 500}

\* the responses of the mocked network
ResponseOutcomes == { AxiosResponse(st, d) : st \in ResponseStatuses, d \in Payloads }

\* the header names of the scenarios
HeaderNames == {"Content-Type", "Authorization", "X-Trace"}

\* a header object that sets the names of D, each to a value telling its source
HeadersFrom(source, D) == [n \in D |-> HeaderValue(source, 0)]

\* requests of every method, with and without a body; two of them with a
\* retry, and some whose body is a primitive that converts to false
MethodOptions ==
    { [NoOptions EXCEPT !.maxRetries = {0}, !.method = m, !.body = b] :
          m \in {Undefined, Null} \cup { {x} : x \in Methods },
          b \in {Undefined, {("name" :> "test")}} }
    \cup { [NoOptions EXCEPT !.maxRetries = {1}, !.method = {m}, !.body = {("name" :> "test")}] :
               m \in {"GET", "POST"} }
    \cup { [NoOptions EXCEPT !.maxRetries = {0}, !.method = {m}, !.body = {v}] :
               m \in {"GET", "POST", "PUT"}, v \in Falsy }
    \cup { [NoOptions EXCEPT !.maxRetries = {0}, !.method = {m}, !.body = Null] :
               m \in {"GET", "POST", "PUT"} }

\* requests with per-call headers
HeaderOptions ==
    { [NoOptions EXCEPT !.maxRetries = {0}, !.headers = h] :
          h \in {Undefined, Null} \cup { {HeadersFrom("per-call", D)} : D \in SUBSET HeaderNames } }
    \cup { [NoOptions EXCEPT !.maxRetries = {0}, !.timeout = Null] }

\* the transports of the scenarios: any default headers, no interceptor or one
\* that rewrites a header
ExecuteSetups ==
    { [config |-> HttpTransport([timeout |-> absent, maxRetries |-> absent,
                                 retryDelay |-> absent, defaultHeaders |-> d,
                                 logger |-> "none"]),
       middlewares |-> mws] :
          absent \in {Undefined, Null},
          d \in {Undefined, Null} \cup { {HeadersFrom("default", D)} : D \in SUBSET HeaderNames },
          mws \in {<<>>, <<"setHeader">>} }

\* the requests made on a transport of the scenarios
ExecuteOptions(cfg, mws) ==
    IF cfg.defaultHeaders = EmptyRecord /\ mws = <<>>
    THEN MethodOptions \cup HeaderOptions
    ELSE HeaderOptions

RequestAny == request(ExecuteOptions(config, middlewares))

\* the mocked network settles the pending call
ExecuteAnyResumes == executeRequestResumes(ResponseOutcomes)

\* a late registration of an interceptor that passes the request on or of one
\* that rewrites a header, during a request that asks for one retry
UseAny == useLate({"pass", "setHeader"}, {1})

(***************************************************************************)
(* Concurrent request() calls on one transport: the objects each attempt   *)
(* builds and the interceptors mutate (http-transport.ts, request)         *)
(***************************************************************************)
\* the request() calls in flight together
Callers == 1 .. MaxConcurrent

\* the addresses of the objects built: the headers and the metadata object of
\* attempt a of caller r (0, 0: objects that belong to the transport)
Addresses == {"headers", "metadata"} \X (0 .. MaxConcurrent) \X (0 .. MaxConcRetries + 1)

\* a context whose headers and metadata objects belong to the transport and
\* are used again by every attempt
ContextObjects_PerTransport(r, a) ==
    [headers |-> <<"headers", 0, 0>>, metadata |-> <<"metadata", 0, 0>>]

\* `const headers = {...}` and `metadata: {}`: two new objects per attempt
ContextObjects(r, a) ==
    [headers |-> <<"headers", r, a>>, metadata |-> <<"metadata", r, a>>]

\* what tells the writes of the interceptors in attempt a of caller r apart
Stamp(r, a) == 10 * r + a

\* a caller that has not called request()
NotCalled ==
    [pc |-> "idle", attempt |-> 0, maxRetries |-> 0, perCall |-> EmptyRecord,
     ctx |-> ContextObjects(0, 0), merged |-> EmptyRecord, wrote |-> FALSE]

\* a transport on which no request is in flight
ConcIdle ==
    /\ heap = [x \in Addresses |-> EmptyRecord]
    /\ inflight = [r \in Callers |-> NotCalled]
    /\ handed = {}
    /\ wire = {}

\* request(url, options), up to the first attempt
CallRequest(r) ==
    /\ inflight[r].pc = "idle"
    /\ \A q \in 1 .. (r - 1) : inflight[q].pc # "idle"
    /\ \E m \in 0 .. (IF r = 1 THEN MaxConcRetries ELSE 0),
          h \in {EmptyRecord} \cup (IF r = 1 THEN {HeadersFrom("per-call", {"X-Trace"})} ELSE {}) :
          inflight' = [inflight EXCEPT ![r] =
                          [NotCalled EXCEPT !.pc = "attempt", !.attempt = 1,
                                            !.maxRetries = m, !.perCall = h]]
    /\ UNCHANGED <<heap, handed, wire, nonces>>

\* an attempt from its first statement to the call of executeMiddlewareChain:
\* sign, merge the headers into a new object, build the context
BuildContext(r) ==
    /\ inflight[r].pc = "attempt"
    /\ LET a == inflight[r].attempt
           ctx == ContextObjects(r, a)
           headers == MergeHeaders(config.defaultHeaders, sign(nonces), inflight[r].perCall)
       IN /\ nonces' = nonces + 1
          /\ heap' = [heap EXCEPT ![ctx.headers] = headers, ![ctx.metadata] = EmptyRecord]
          /\ inflight' = [inflight EXCEPT ![r].pc = "chain", ![r].ctx = ctx,
                                           ![r].merged = headers, ![r].wrote = FALSE]
          /\ handed' = handed \cup {[caller |-> r, attempt |-> a,
                                      headers |-> heap'[ctx.headers],
                                      metadata |-> heap'[ctx.metadata]]}
    /\ wire' = wire

\* an interceptor writes a header and a metadata entry of the context it was
\* handed, then awaits next()
InterceptorWrites(r) ==
    /\ inflight[r].pc = "chain"
    /\ LET ctx == inflight[r].ctx
           stamp == Stamp(r, inflight[r].attempt)
       IN heap' = [heap EXCEPT
                      ![ctx.headers] = Spread(@, ("X-Trace" :> HeaderValue("interceptor", stamp))),
                      ![ctx.metadata] = Spread(@, ("startTime" :> HeaderValue("interceptor", stamp)))]
    /\ inflight' = [inflight EXCEPT ![r].pc = "handler", ![r].wrote = TRUE]
    /\ UNCHANGED <<handed, wire, nonces>>

\* an interceptor that writes nothing awaits next()
InterceptorPasses(r) ==
    /\ inflight[r].pc = "chain"
    /\ inflight' = [inflight EXCEPT ![r].pc = "handler"]
    /\ UNCHANGED <<heap, handed, wire, nonces>>

\* the terminal handler: executeRequest(context, timeout) hands the headers of
\* the context to axios
HandlerSends(r) ==
    /\ inflight[r].pc = "handler"
    /\ wire' = wire \cup {[caller |-> r, attempt |-> inflight[r].attempt,
                            headers |-> heap[inflight[r].ctx.headers],
                            metadata |-> heap[inflight[r].ctx.metadata],
                            merged |-> inflight[r].merged,
                            wrote |-> inflight[r].wrote]}
    /\ inflight' = [inflight EXCEPT ![r].pc = "network"]
    /\ UNCHANGED <<heap, handed, nonces>>

\* the network call succeeded: request() resolves
CallResolves(r) ==
    /\ inflight[r].pc = "network"
    /\ inflight' = [inflight EXCEPT ![r].pc = "resolved"]
    /\ UNCHANGED <<heap, handed, wire, nonces>>

\* the network call failed with a retryable error: the next attempt after the
\* backoff, or the rejection after the last one
CallFails(r) ==
    /\ inflight[r].pc = "network"
    /\ inflight' = [inflight EXCEPT
                       ![r].pc = IF inflight[r].attempt = inflight[r].maxRetries + 1
                                 THEN "rejected" ELSE "attempt",
                       ![r].attempt = IF inflight[r].attempt = inflight[r].maxRetries + 1
                                      THEN @ ELSE @ + 1]
    /\ UNCHANGED <<heap, handed, wire, nonces>>

(***************************************************************************)
(* Specifications                                                          *)
(***************************************************************************)
vars == <<retryVars, chainVars, transportVars, queryVars, utilVars, concVars>>

\* no withRetry call in progress
RetryIdle ==
    /\ opts = DEFAULT_RETRY_CONFIG
    /\ attempt = 0
    /\ rpc = "idle"
    /\ calls = 0
    /\ shouldRetryCalls = 0
    /\ onRetryLog = <<>>
    /\ slept = <<>>
    /\ settled = Pending
    /\ fnLog = <<>>

\* no chain in progress
ChainIdle ==
    /\ middlewares = <<>>
    /\ context = createContext
    /\ index = 0
    /\ stack = <<>>
    /\ ret = Pending
    /\ trace = <<>>

\* a transport built with the test configuration, nothing sent
TransportIdle ==
    /\ config = HttpTransport([timeout |-> Undefined, maxRetries |-> {0}, retryDelay |-> Undefined,
                               defaultHeaders |-> Undefined, logger |-> "none"])
    /\ options = NoOptions
    /\ nonces = 0
    /\ sends = <<>>
    /\ seen = {}
    /\ lateUses = 0

\* no query in progress, against the server srv
QueryIdle(srv) ==
    /\ server = srv
    /\ qopts = Destructure("query", [pageSize |-> Undefined, offset |-> Undefined,
                                      maxRows |-> Undefined])
    /\ qpc = "idle"
    /\ allItems = <<>>
    /\ totalYielded = 0
    /\ currentOffset = 0
    /\ totalResults = 0
    /\ pagesFetched = 0
    /\ page = NoPage
    /\ requests = <<>>
    /\ pageSizes = <<>>
    /\ received = <<>>
    /\ yielded = <<>>
    /\ qresult = Pending
    /\ awaited = Pending
    /\ prior = NoPrior

NoServer == [rows |-> 0, kind |-> "honest"]

\* no utility in use
UtilIdle ==
    /\ AccountIdle(<<>>)
    /\ ClockIdle
    /\ LimiterIdle(RateLimiter(Undefined, Undefined))
    /\ CacheIdle

\* withRetry around a scripted operation
InitRetry ==
    /\ RetryIdle
    /\ ChainIdle
    /\ TransportIdle
    /\ QueryIdle(NoServer)
    /\ UtilIdle
    /\ ConcIdle

NextRetry ==
    \/ CallWithRetry /\ UNCHANGED <<chainVars, transportVars, queryVars, utilVars, concVars>>
    \/ LoopHead /\ UNCHANGED <<fnLog, chainVars, transportVars, queryVars, utilVars, concVars>>
    \/ FnResolves /\ UNCHANGED <<chainVars, transportVars, queryVars, utilVars, concVars>>
    \/ FnRejects /\ UNCHANGED <<chainVars, transportVars, queryVars, utilVars, concVars>>
    \/ Wake /\ UNCHANGED <<fnLog, chainVars, transportVars, queryVars, utilVars, concVars>>

SpecRetry == InitRetry /\ [][NextRetry]_vars

\* executeMiddlewareChain around a mock handler
InitChain ==
    /\ middlewares \in SeqsUpTo(ChainInterceptors, MaxChain)
    /\ context = createContext
    /\ index = 0
    /\ stack = <<>>
    /\ ret = Pending
    /\ trace = <<>>
    /\ RetryIdle
    /\ TransportIdle
    /\ QueryIdle(NoServer)
    /\ UtilIdle
    /\ ConcIdle

NextChain ==
    \/ ChainCall /\ UNCHANGED <<retryVars, transportVars, queryVars, utilVars, concVars>>
    \/ MiddlewareEnter /\ UNCHANGED <<retryVars, transportVars, queryVars, utilVars, concVars>>
    \/ MiddlewareResume /\ UNCHANGED <<retryVars, transportVars, queryVars, utilVars, concVars>>
    \/ MockHandler /\ UNCHANGED <<retryVars, transportVars, queryVars, utilVars, concVars>>

SpecChain == InitChain /\ [][NextChain]_vars

\* HttpTransport.request: withRetry around sign + interceptor chain + executeRequest
InitTransport ==
    /\ \E setup \in TransportSetups :
          /\ config = setup.config
          /\ middlewares = setup.middlewares
    /\ options = NoOptions
    /\ nonces = 0
    /\ sends = <<>>
    /\ seen = {}
    /\ lateUses = 0
    /\ RetryIdle
    /\ context = createContext
    /\ index = 0
    /\ stack = <<>>
    /\ ret = Pending
    /\ trace = <<>>
    /\ QueryIdle(NoServer)
    /\ UtilIdle
    /\ ConcIdle

NextTransport ==
    \/ Request
    \/ LoopHead /\ UNCHANGED <<fnLog, chainVars, transportVars, queryVars, utilVars, concVars>>
    \/ Attempt
    \/ MiddlewareEnter /\ UNCHANGED <<retryVars, transportVars, queryVars, utilVars, concVars>>
    \/ MiddlewareResume /\ UNCHANGED <<retryVars, transportVars, queryVars, utilVars, concVars>>
    \/ executeRequest
    \/ ExecuteRequestResumes
    \/ Use
    \/ AttemptReturns
    \/ AttemptThrows
    \/ Wake /\ UNCHANGED <<fnLog, chainVars, transportVars, queryVars, utilVars, concVars>>

SpecTransport == InitTransport /\ [][NextTransport]_vars

\* SuiteQLClient.query and queryPages over a transport that answers each page
\* request with the server's page or rejects it
InitQuery ==
    /\ \E srv \in Servers : QueryIdle(srv)
    /\ UtilIdle
    /\ RetryIdle
    /\ ChainIdle
    /\ TransportIdle
    /\ ConcIdle

NextQuery ==
    \/ Query /\ UNCHANGED <<retryVars, chainVars, transportVars, utilVars, concVars>>
    \/ QueryOne /\ UNCHANGED <<retryVars, chainVars, transportVars, utilVars, concVars>>
    \/ QueryPagesAfterQuery /\ UNCHANGED <<retryVars, chainVars, transportVars, utilVars, concVars>>
    \/ QueryLoop /\ UNCHANGED <<retryVars, chainVars, transportVars, utilVars, concVars>>
    \/ QueryPage /\ UNCHANGED <<retryVars, chainVars, transportVars, utilVars, concVars>>
    \/ PageRejected /\ UNCHANGED <<retryVars, chainVars, transportVars, utilVars, concVars>>
    \/ QueryOneResumes /\ UNCHANGED <<retryVars, chainVars, transportVars, utilVars, concVars>>
    \/ QueryPages /\ UNCHANGED <<retryVars, chainVars, transportVars, utilVars, concVars>>
    \/ PagesLoop /\ UNCHANGED <<retryVars, chainVars, transportVars, utilVars, concVars>>
    \/ PagesPage /\ UNCHANGED <<retryVars, chainVars, transportVars, utilVars, concVars>>
    \/ PagesResume /\ UNCHANGED <<retryVars, chainVars, transportVars, utilVars, concVars>>

SpecQuery == InitQuery /\ [][NextQuery]_vars

\* concurrent request() calls on one transport with any default headers
InitConcurrent ==
    /\ \E d \in {Undefined, {HeadersFrom("default", {"X-Trace"})}} :
          config = HttpTransport([timeout |-> Undefined, maxRetries |-> Undefined,
                                  retryDelay |-> Undefined, defaultHeaders |-> d,
                                  logger |-> "none"])
    /\ options = NoOptions
    /\ nonces = 0
    /\ sends = <<>>
    /\ seen = {}
    /\ lateUses = 0
    /\ RetryIdle
    /\ ChainIdle
    /\ QueryIdle(NoServer)
    /\ UtilIdle
    /\ ConcIdle

NextConcurrent ==
    \/ \E r \in Callers : CallRequest(r) /\ UNCHANGED <<config, options, sends, seen, lateUses>>
                                         /\ UNCHANGED <<retryVars, chainVars, queryVars, utilVars>>
    \/ \E r \in Callers : BuildContext(r) /\ UNCHANGED <<config, options, sends, seen, lateUses>>
                                          /\ UNCHANGED <<retryVars, chainVars, queryVars, utilVars>>
    \/ \E r \in Callers : InterceptorWrites(r) /\ UNCHANGED <<config, options, sends, seen, lateUses>>
                                               /\ UNCHANGED <<retryVars, chainVars, queryVars, utilVars>>
    \/ \E r \in Callers : InterceptorPasses(r) /\ UNCHANGED <<config, options, sends, seen, lateUses>>
                                               /\ UNCHANGED <<retryVars, chainVars, queryVars, utilVars>>
    \/ \E r \in Callers : HandlerSends(r) /\ UNCHANGED <<config, options, sends, seen, lateUses>>
                                          /\ UNCHANGED <<retryVars, chainVars, queryVars, utilVars>>
    \/ \E r \in Callers : CallResolves(r) /\ UNCHANGED <<config, options, sends, seen, lateUses>>
                                          /\ UNCHANGED <<retryVars, chainVars, queryVars, utilVars>>
    \/ \E r \in Callers : CallFails(r) /\ UNCHANGED <<config, options, sends, seen, lateUses>>
                                       /\ UNCHANGED <<retryVars, chainVars, queryVars, utilVars>>

SpecConcurrent == InitConcurrent /\ [][NextConcurrent]_vars

\* query() and queryPages() against an endpoint that answers anything
InitAnyServer ==
    /\ QueryIdle(AnyServer)
    /\ RetryIdle
    /\ ChainIdle
    /\ TransportIdle
    /\ UtilIdle
    /\ ConcIdle

NextAnyServer ==
    \/ Query /\ UNCHANGED <<retryVars, chainVars, transportVars, utilVars, concVars>>
    \/ QueryLoop /\ UNCHANGED <<retryVars, chainVars, transportVars, utilVars, concVars>>
    \/ QueryPage /\ UNCHANGED <<retryVars, chainVars, transportVars, utilVars, concVars>>
    \/ PageRejected /\ UNCHANGED <<retryVars, chainVars, transportVars, utilVars, concVars>>
    \/ QueryPages /\ UNCHANGED <<retryVars, chainVars, transportVars, utilVars, concVars>>
    \/ PagesLoop /\ UNCHANGED <<retryVars, chainVars, transportVars, utilVars, concVars>>
    \/ PagesPage /\ UNCHANGED <<retryVars, chainVars, transportVars, utilVars, concVars>>
    \/ PagesResume /\ UNCHANGED <<retryVars, chainVars, transportVars, utilVars, concVars>>

SpecAnyServer == InitAnyServer /\ [][NextAnyServer]_vars

\* the same where every transport call settles, every continuation runs and
\* the consumer of queryPages() keeps pulling
FairAnyServer == SpecAnyServer /\ WF_vars(NextAnyServer)

\* one request on a transport of the scenarios above
InitExecute ==
    /\ \E setup \in ExecuteSetups :
          /\ config = setup.config
          /\ middlewares = setup.middlewares
    /\ options = NoOptions
    /\ nonces = 0
    /\ sends = <<>>
    /\ seen = {}
    /\ lateUses = 0
    /\ RetryIdle
    /\ context = createContext
    /\ index = 0
    /\ stack = <<>>
    /\ ret = Pending
    /\ trace = <<>>
    /\ QueryIdle(NoServer)
    /\ UtilIdle
    /\ ConcIdle

NextExecute ==
    \/ RequestAny
    \/ LoopHead /\ UNCHANGED <<fnLog, chainVars, transportVars, queryVars, utilVars, concVars>>
    \/ Attempt
    \/ MiddlewareEnter /\ UNCHANGED <<retryVars, transportVars, queryVars, utilVars, concVars>>
    \/ MiddlewareResume /\ UNCHANGED <<retryVars, transportVars, queryVars, utilVars, concVars>>
    \/ executeRequest
    \/ ExecuteAnyResumes
    \/ UseAny
    \/ AttemptReturns
    \/ AttemptThrows
    \/ Wake /\ UNCHANGED <<fnLog, chainVars, transportVars, queryVars, utilVars, concVars>>

SpecExecute == InitExecute /\ [][NextExecute]_vars

\* the account identifier handed to normalizeAccountId, the clients and the URL builders
InitAccount ==
    /\ \E id \in AccountIds : AccountIdle(id)
    /\ ClockIdle
    /\ LimiterIdle(RateLimiter(Undefined, Undefined))
    /\ CacheIdle
    /\ RetryIdle
    /\ ChainIdle
    /\ TransportIdle
    /\ QueryIdle(NoServer)
    /\ ConcIdle

coreVars == <<retryVars, chainVars, transportVars, queryVars, concVars>>

NextAccount ==
    \/ NormalizeAccountId /\ UNCHANGED <<coreVars, clockVars, limiterVars, cacheVars>>
    \/ NewSuiteQLClient /\ UNCHANGED <<coreVars, clockVars, limiterVars, cacheVars>>
    \/ NewRecordClient /\ UNCHANGED <<coreVars, clockVars, limiterVars, cacheVars>>
    \/ NewRestletClient /\ UNCHANGED <<coreVars, clockVars, limiterVars, cacheVars>>
    \/ BuildSuiteTalkUrl /\ UNCHANGED <<coreVars, clockVars, limiterVars, cacheVars>>
    \/ BuildRestletUrl /\ UNCHANGED <<coreVars, clockVars, limiterVars, cacheVars>>

SpecAccount == InitAccount /\ [][NextAccount]_vars

\* a rate limiter under a fake clock (as in the rate limiter tests)
InitLimiter ==
    /\ \E l \in RateLimiters : LimiterIdle(l)
    /\ ClockIdle
    /\ AccountIdle(<<>>)
    /\ CacheIdle
    /\ RetryIdle
    /\ ChainIdle
    /\ TransportIdle
    /\ QueryIdle(NoServer)
    /\ ConcIdle

NextLimiter ==
    \/ CanMakeRequest /\ UNCHANGED <<coreVars, accountVars, clockVars, cacheVars>>
    \/ RecordRequest /\ UNCHANGED <<coreVars, accountVars, clockVars, cacheVars>>
    \/ GetRemainingRequests /\ UNCHANGED <<coreVars, accountVars, clockVars, cacheVars>>
    \/ GetTimeUntilNextSlot /\ UNCHANGED <<coreVars, accountVars, clockVars, cacheVars>>
    \/ Tick /\ UNCHANGED <<coreVars, accountVars, limiterVars, cacheVars>>

SpecLimiter == InitLimiter /\ [][NextLimiter]_vars

\* a response cache under a fake clock (as in the cache tests)
InitCache ==
    /\ CacheIdle
    /\ ClockIdle
    /\ AccountIdle(<<>>)
    /\ LimiterIdle(RateLimiter(Undefined, Undefined))
    /\ RetryIdle
    /\ ChainIdle
    /\ TransportIdle
    /\ QueryIdle(NoServer)
    /\ ConcIdle

NextCache ==
    \/ CacheSet /\ UNCHANGED <<coreVars, accountVars, clockVars, limiterVars>>
    \/ CacheGet /\ UNCHANGED <<coreVars, accountVars, clockVars, limiterVars>>
    \/ CacheDelete /\ UNCHANGED <<coreVars, accountVars, clockVars, limiterVars>>
    \/ CacheClear /\ UNCHANGED <<coreVars, accountVars, clockVars, limiterVars>>
    \/ Tick /\ UNCHANGED <<coreVars, accountVars, limiterVars, cacheVars>>

SpecCache == InitCache /\ [][NextCache]_vars


(***************************************************************************)
(* Properties of the retry engine                                          *)
(***************************************************************************)
RetrySettled == rpc \in {"resolved", "rejected"}

\* every invocation of fn so far failed with an error the predicate accepts
AllFailedAccepted ==
    \A i \in 1 .. Len(fnLog) :
        /\ fnLog[i].kind = "err"
        /\ ShouldRetry(opts.shouldRetry, fnLog[i].error, i - 1)

\* C1: with maxRetries = N >= 0 the wrapped operation is called at most N+1
\* times; when every attempt fails with an error the predicate accepts it is
\* called exactly N+1 times and withRetry rejects with the last attempt's error.
C1_RetryBound ==
    opts.maxRetries >= 0 =>
        /\ calls <= opts.maxRetries + 1
        /\ (RetrySettled /\ AllFailedAccepted) =>
               /\ calls = opts.maxRetries + 1
               /\ rpc = "rejected"
               /\ settled = Rejected(fnLog[calls].error)
               /\ settled.error.id = opts.maxRetries + 1

C1_Witness ==
    /\ opts.maxRetries >= 1
    /\ rpc = "rejected"
    /\ AllFailedAccepted
    /\ calls = opts.maxRetries + 1
    /\ Len(slept) = opts.maxRetries

\* C11: under the default predicate, a first failure that is a NetSuiteError
\* with isRetryable false makes withRetry reject with that error after exactly
\* one call, with no onRetry call and no backoff sleep, for every maxRetries >= 0.
C11_NonRetryableOnce ==
    (/\ opts.shouldRetry = "default"
     /\ opts.maxRetries >= 0
     /\ Len(fnLog) >= 1
     /\ fnLog[1].kind = "err"
     /\ instanceofNetSuiteError(fnLog[1].error)
     /\ ~isRetryable(fnLog[1].error)) =>
        /\ rpc = "rejected"
        /\ settled = Rejected(fnLog[1].error)
        /\ calls = 1
        /\ Len(fnLog) = 1
        /\ shouldRetryCalls <= 1
        /\ onRetryLog = <<>>
        /\ slept = <<>>

C11_Witness ==
    /\ Observed(opts)
    /\ opts.shouldRetry = "default"
    /\ opts.maxRetries = MaxRetriesBound
    /\ rpc = "rejected"
    /\ settled.error.status = 404
    /\ calls = 1
    /\ slept = <<>>

\* C12: withRetry resolves with the result of the first attempt that succeeds
\* and makes no further attempt: when attempts 1..k-1 failed and attempt k
\* succeeded, fn was called exactly k times and the result is attempt k's.
C12_FirstSuccessReturns ==
    /\ \A k \in 1 .. Len(fnLog) :
          fnLog[k].kind = "ok" =>
              /\ k = Len(fnLog)
              /\ calls = k
              /\ rpc = "resolved"
              /\ settled = fnLog[k]
              /\ settled.value.from = k
              /\ Len(slept) = k - 1
              /\ \A j \in 1 .. (k - 1) :
                    /\ fnLog[j].kind = "err"
                    /\ ShouldRetry(opts.shouldRetry, fnLog[j].error, j - 1)
    /\ rpc = "resolved" => (Len(fnLog) = calls /\ fnLog[calls].kind = "ok")

C12_Witness ==
    /\ rpc = "resolved"
    /\ calls = 3
    /\ opts.maxRetries = 2
    /\ fnLog[1].kind = "err"
    /\ fnLog[2].kind = "err"
    /\ settled.value.from = 3

\* C25: onRetry is invoked exactly once before each retry and never after a
\* success, after the final allowed attempt or after an error the predicate
\* rejects: its k-th invocation receives the error of attempt k and the number
\* k, and once withRetry has settled the number of invocations is the number
\* of calls of the wrapped operation minus one.
C25_OnRetryCalls ==
    Observed(opts) =>
    /\ Len(onRetryLog) = Len(slept)
    /\ Len(onRetryLog) <= Len(fnLog)
    /\ \A k \in 1 .. Len(onRetryLog) :
          /\ onRetryLog[k].attempt = k
          /\ fnLog[k].kind = "err"
          /\ onRetryLog[k].error = fnLog[k].error
          /\ k <= opts.maxRetries
          /\ ShouldRetry(opts.shouldRetry, fnLog[k].error, k - 1)
    /\ Len(onRetryLog) \in {calls - 1, calls} \cap Nat
    /\ RetrySettled => Len(onRetryLog) = calls - 1

\* the same for the calls of withRetry that invoke the wrapped operation
C25_AfterACall ==
    calls >= 1 => C25_OnRetryCalls

\* withRetry rejected with the error that follows its loop
FellThrough ==
    rpc = "rejected" /\ settled = Rejected(PlainError("Retry loop exited unexpectedly", 0))

\* C35: the trailing 'Retry loop exited unexpectedly' error of withRetry is
\* unreachable: for every retry configuration withRetry invokes the wrapped
\* operation at least once and never rejects with that error.
C35_FallbackUnreachable ==
    /\ ~FellThrough
    /\ RetrySettled => calls >= 1

\* the same for a maxRetries that is not negative
C35_NonNegative ==
    opts.maxRetries >= 0 => C35_FallbackUnreachable

\* the caller passed its own shouldRetry
CustomPredicate == opts.shouldRetry \in {"always", "never", "firstOnly"}

\* what the caller's predicate answers for the failure of attempt index att
CallerAccepts(att) ==
    opts.shouldRetry = "always" \/ (opts.shouldRetry = "firstOnly" /\ att = 0)

\* the failed attempts that were not the last allowed one
Consulted == { k \in 1 .. Len(fnLog) : fnLog[k].kind = "err" /\ k - 1 # opts.maxRetries }

\* C26: a caller-supplied shouldRetry replaces the default predicate: it is
\* consulted exactly once after each failed attempt other than the last allowed
\* one, and as soon as it returns false the error is propagated with no onRetry
\* call, no backoff sleep and no further call of the wrapped operation; while
\* it returns true the retry goes ahead whatever the default would say.
C26_CustomPredicate ==
    CustomPredicate =>
        /\ shouldRetryCalls = Cardinality(Consulted)
        /\ \A k \in Consulted :
              IF CallerAccepts(k - 1)
              THEN /\ Len(slept) >= k
                   /\ Observed(opts) => /\ Len(onRetryLog) >= k
                                         /\ onRetryLog[k].error = fnLog[k].error
              ELSE /\ rpc = "rejected"
                   /\ settled = Rejected(fnLog[k].error)
                   /\ k = Len(fnLog)
                   /\ calls = k
                   /\ Len(onRetryLog) = (IF Observed(opts) THEN k - 1 ELSE 0)
                   /\ Len(slept) = k - 1

C26_Witness ==
    /\ Observed(opts)
    /\ Len(onRetryLog) = 1
    /\ opts.shouldRetry = "firstOnly"
    /\ opts.maxRetries = 2
    /\ rpc = "rejected"
    /\ calls = 2
    /\ shouldRetryCalls = 2
    /\ Len(slept) = 1
    /\ fnLog[1].error.status = 404
    /\ ~instanceofNetSuiteError(fnLog[2].error)

Abs(x) == IF x < 0 THEN -x ELSE x

\* C27 as stated: the pre-jitter delay of retry index k is
\* min(initialDelay * backoffFactor^k, maxDelay), non-decreasing in k and never
\* above maxDelay; the delay slept after jitter lies within 25% of it, is never
\* negative and never exceeds 1.25 * maxDelay (delays compared after scaling
\* by 4 * RandDen).
C27_BackoffDelay_AsStated ==
    \A n \in 1 .. Len(slept) :
        LET delay == slept[n].delay
            sleptScaled == SleptScaled(delay, slept[n].rand)
        IN /\ delay = Min(opts.initialDelay * Pow(opts.backoffFactor, n - 1), opts.maxDelay)
           /\ delay <= opts.maxDelay
           /\ n > 1 => delay >= slept[n - 1].delay
           /\ Abs(sleptScaled - 4 * delay * RandDen) <= Abs(delay) * RandDen
           /\ sleptScaled >= 0
           /\ sleptScaled <= 5 * opts.maxDelay * RandDen

\* C27 (amended): the pre-jitter delay of retry index k is
\* min(initialDelay * backoffFactor^k, maxDelay) and never above maxDelay; it
\* is non-decreasing in k when initialDelay >= 0 and backoffFactor >= 1; the
\* delay slept after jitter lies within 25% of it, is not negative when the
\* pre-jitter delay is not, and does not exceed 1.25 * maxDelay when maxDelay
\* is not negative (delays compared after scaling by 4 * RandDen).
C27_BackoffDelay ==
    \A n \in 1 .. Len(slept) :
        LET delay == slept[n].delay
            sleptScaled == SleptScaled(delay, slept[n].rand)
        IN /\ delay = Min(opts.initialDelay * Pow(opts.backoffFactor, n - 1), opts.maxDelay)
           /\ delay <= opts.maxDelay
           /\ (opts.initialDelay >= 0 /\ opts.backoffFactor >= 1 /\ n > 1) =>
                  delay >= slept[n - 1].delay
           /\ Abs(sleptScaled - 4 * delay * RandDen) <= Abs(delay) * RandDen
           /\ delay >= 0 => sleptScaled >= 0
           /\ opts.maxDelay >= 0 => sleptScaled <= 5 * opts.maxDelay * RandDen

\* three sleeps that grow to the cap, the first with the most negative jitter,
\* the second with a positive one
C27_Witness ==
    /\ opts.initialDelay = 10
    /\ opts.backoffFactor = 3
    /\ opts.maxDelay = 25
    /\ Len(slept) = 3
    /\ slept[1].delay = 10
    /\ slept[2].delay = 25
    /\ slept[3].delay = 25
    /\ SleptScaled(slept[1].delay, slept[1].rand) = 3 * slept[1].delay * RandDen
    /\ SleptScaled(slept[2].delay, slept[2].rand) > 4 * slept[2].delay * RandDen
    /\ slept[3].rand = RandDen - 1

(***************************************************************************)
(* Properties of the middleware chain executor                             *)
(***************************************************************************)
RECURSIVE Ascending(_, _)
Ascending(a, b) == IF a > b THEN <<>> ELSE <<a>> \o Ascending(a + 1, b)

RECURSIVE Descending(_, _)
Descending(b, a) == IF b < a THEN <<>> ELSE <<b>> \o Descending(b - 1, a)

EventsOf(ev, ids) == [n \in 1 .. Len(ids) |-> Event(ev, ids[n])]

IsPrefix(p, q) == Len(p) <= Len(q) /\ p = SubSeq(q, 1, Len(p))

\* the trace without the calls of proceed
Order == SelectSeq(trace, LAMBDA e : e.ev # "proceed")

Entered(i) == \E n \in 1 .. Len(trace) : trace[n] = Event("enter", i)

HandlerRuns == Len(SelectSeq(trace, LAMBDA e : e.ev = "handler"))

Proceeds(i) == Len(SelectSeq(trace, LAMBDA e : e = Event("proceed", i)))

\* m1 .. mk entered in order, the handler, then the post-proceed code in reverse
ExpectedOrder(k) ==
    EventsOf("enter", Ascending(1, k)) \o <<Event("handler", 0)>>
        \o EventsOf("exit", Descending(k, 1))

EachProceedsOnce == \A i \in 1 .. Len(middlewares) : middlewares[i] \in {"pass", "setHeader"}

\* C5: interceptors that each call proceed once are entered in registration
\* order, then the terminal handler runs exactly once, then their post-proceed
\* code runs in reverse registration order; with no interceptor the handler
\* runs directly.
C5_ChainOrder ==
    EachProceedsOnce =>
        LET k == Len(middlewares)
        IN /\ IsPrefix(Order, ExpectedOrder(k))
           /\ ChainSettled => HandlerRuns = 1
           /\ (ChainSettled /\ ret.kind = "ok") =>
                  /\ Order = ExpectedOrder(k)
                  /\ ret.value.via = Descending(k, 1)

C5_Witness ==
    /\ Len(middlewares) >= 2
    /\ EachProceedsOnce
    /\ ChainSettled
    /\ ret.kind = "ok"
    /\ Order = ExpectedOrder(Len(middlewares))

\* the interceptors entered, in the order they were entered
Enters == SelectSeq(trace, LAMBDA e : e.ev = "enter")

\* the number of interceptors entered before the n-th event of the trace
EnteredBefore(n) == Len(SelectSeq(SubSeq(trace, 1, n - 1), LAMBDA e : e.ev = "enter"))

\* C40: within one execution of executeMiddlewareChain the interceptors are
\* entered in registration order and each is entered at most once, even when
\* an interceptor invokes proceed more than once; the terminal handler is
\* reached only after every registered interceptor has been entered.
C40_EnteredOnceInOrder ==
    /\ Len(Enters) <= Len(middlewares)
    /\ Enters = EventsOf("enter", Ascending(1, Len(Enters)))
    /\ index <= Len(middlewares)
    /\ Len(Enters) = (IF stack # <<>> /\ Top.at = "start" THEN index - 1 ELSE index)
    /\ \A n \in 1 .. Len(trace) :
          trace[n].ev = "handler" => EnteredBefore(n) = Len(middlewares)
    /\ (stack # <<>> /\ Top = HandlerFrame) => Len(Enters) = Len(middlewares)

\* the first of two interceptors invoked proceed twice: both were entered
\* once, in order, and the handler ran for each proceed of the first
C40_Witness ==
    /\ middlewares = <<"again", "pass">>
    /\ ChainSettled
    /\ Proceeds(1) = 2
    /\ Enters = EventsOf("enter", <<1, 2>>)
    /\ HandlerRuns = 2

\* what the chain returns when interceptor i short-circuits and the
\* interceptors before it transform the response on the way out
ShortResult(i) == [ShortResponse(i) EXCEPT !.via = Descending(i - 1, 1)]

NothingAfter(i) ==
    /\ HandlerRuns = 0
    /\ \A j \in (i + 1) .. Len(middlewares) : ~Entered(j)

\* C6 as stated: an interceptor that returns without invoking proceed keeps the
\* handler and every later interceptor from running, and the chain returns its
\* response as transformed by the interceptors before it.
C6_ShortCircuit_AsStated ==
    \A i \in 1 .. Len(middlewares) :
        (middlewares[i] = "short" /\ Entered(i)) =>
            /\ NothingAfter(i)
            /\ ChainSettled => ret = Resolved(ShortResult(i))

\* C6 (amended): the same, provided no interceptor registered before it has
\* invoked proceed more than once.
C6_ShortCircuit ==
    \A i \in 1 .. Len(middlewares) :
        (/\ middlewares[i] = "short"
         /\ Entered(i)
         /\ \A j \in 1 .. (i - 1) : Proceeds(j) <= 1) =>
            /\ NothingAfter(i)
            /\ ChainSettled => ret = Resolved(ShortResult(i))

C6_Witness ==
    /\ Len(middlewares) >= 3
    /\ middlewares[2] = "short"
    /\ Entered(2)
    /\ ChainSettled
    /\ ret = Resolved(ShortResult(2))

Catches(kind) == kind \in {"retry", "recover"}

Authorization(k) == sends[k].request.headers["Authorization"]

\* the send carries the header the signer made (no per-call or interceptor override)
Signed(k) == Authorization(k).text = "OAuth"

SignCalls(a) == Len(SelectSeq(trace, LAMBDA e : e = Event("sign", a)))

\* every started attempt has called the signer exactly once, as its first step
SignedOncePerAttempt ==
    /\ nonces \in {calls - 1, calls} \cap Nat
    /\ \A a \in 1 .. nonces : SignCalls(a) = 1
    /\ (stack # <<>> \/ ret # Pending) => nonces = calls
    /\ trace # <<>> => trace[1] = Event("sign", 1)

\* C2 as stated: every attempt signs exactly once before the chain runs, and no
\* nonce is sent on more than one network call.
C2_FreshNonce_AsStated ==
    /\ SignedOncePerAttempt
    /\ \A j, k \in 1 .. Len(sends) :
          (j # k /\ Signed(j) /\ Signed(k)) => Authorization(j).nonce # Authorization(k).nonce

\* C2 (amended): every attempt signs exactly once before the chain runs, and a
\* signed network call carries the nonce drawn for its own attempt, so no nonce
\* is sent by two different attempts.
C2_FreshNonce ==
    /\ SignedOncePerAttempt
    /\ \A k \in 1 .. Len(sends) : Signed(k) => Authorization(k).nonce = sends[k].att
    /\ \A j, k \in 1 .. Len(sends) :
          (sends[j].att # sends[k].att /\ Signed(j) /\ Signed(k))
              => Authorization(j).nonce # Authorization(k).nonce

C2_Witness ==
    /\ Len(sends) >= 2
    /\ sends[1].att # sends[Len(sends)].att
    /\ Signed(1)
    /\ Signed(Len(sends))
    /\ Authorization(1).nonce # Authorization(Len(sends)).nonce

\* attempt a of the request in progress has started (its signing has run)
Started(a) == a <= nonces

\* an attempt is pending: its chain is running or has settled and the operation
\* has not yet returned to withRetry
AttemptPending == stack # <<>> \/ ret # Pending

\* C23: the attempts of one request are strictly sequential: attempt k+1 (its
\* signing, interceptor chain and network call) starts only after attempt k
\* has settled with a failure and the backoff sleep after it has elapsed, so
\* no two attempts are ever pending together.
C23_SequentialAttempts ==
    /\ nonces \in {calls - 1, calls} \cap Nat
    /\ \A a \in 1 .. nonces : Started(a + 1) =>
          /\ Len(onRetryLog) >= a
          /\ onRetryLog[a].attempt = a
          /\ Len(slept) >= a
          /\ attempt >= a
    /\ AttemptPending => (rpc = "fn" /\ nonces = calls /\ calls = attempt + 1 /\ Len(slept) = attempt)
    /\ rpc = "sleep" => (~AttemptPending /\ Len(slept) = attempt + 1 /\ nonces = attempt + 1)
    /\ \A j, k \in 1 .. Len(sends) : j < k => sends[j].att <= sends[k].att
    /\ \A k \in 1 .. Len(sends) : sends[k].att <= Len(slept) + 1
    /\ \A m, n \in 1 .. Len(trace) :
          (m < n /\ trace[m].ev = "sign" /\ trace[n].ev = "sign") => trace[m].mw < trace[n].mw

C23_Witness ==
    /\ calls = 3
    /\ nonces = 3
    /\ Len(slept) = 2
    /\ AttemptPending
    /\ Len(sends) = 2
    /\ sends[1].att = 1
    /\ sends[2].att = 2

\* what network call k yields on a transport with no logger
QuietResult(k) ==
    Classify(sends[k].outcome, sends[k].request, sends[k].request.timeout, "none", 0)

\* the same error, but for the identity of the thrown object
SameError(e, f) == [e EXCEPT !.id = 0] = [f EXCEPT !.id = 0]

\* the NetSuiteResponse request() builds from what executeRequest returned
ResponseOf(res) ==
    [data |-> res.body, status |-> res.status, headers |-> res.headers, duration |-> res.duration]

\* C24: for any injected logger, including one whose debug, info or warn
\* throws, request() makes the same number of network attempts and yields the
\* same response or the same NetSuiteError as with no logger: every attempt
\* makes its network call, a call is followed by another exactly when its
\* result without a logger is a retryable failure and a retry is left, and the
\* last call's result without a logger is the outcome.
C24_LoggingTransparent ==
    (middlewares = <<>> /\ opts.maxRetries >= 0 /\ RetrySettled) =>
        /\ Len(sends) = calls
        /\ Len(sends) >= 1
        /\ \A k \in 1 .. (Len(sends) - 1) :
              /\ QuietResult(k).kind = "err"
              /\ TransportShouldRetry(QuietResult(k).error)
        /\ LET last == QuietResult(Len(sends))
           IN /\ last.kind = "ok" =>
                    (rpc = "resolved" /\ settled = Resolved(ResponseOf(last.value)))
              /\ last.kind = "err" =>
                    /\ rpc = "rejected"
                    /\ SameError(settled.error, last.error)
                    /\ TransportShouldRetry(last.error) => calls = opts.maxRetries + 1

\* the same with no logger or with one that does not throw
C24_QuietLogger ==
    config.logger \in {"none", "quiet"} => C24_LoggingTransparent

\* the transport alone: no interceptor, no logger, a maxRetries that is not negative
PlainTransport == middlewares = <<>> /\ config.logger = "none" /\ opts.maxRetries >= 0

\* C3: whatever the network call does, request() resolves with a 2xx response
\* or rejects with a NetSuiteError.
C3_TypedOutcome ==
    (PlainTransport /\ RetrySettled) =>
        /\ rpc = "resolved" => settled.value.status \in 200 .. 299
        /\ rpc = "rejected" => instanceofNetSuiteError(settled.error)

\* C4: a 4xx response is never retried: one network attempt, no backoff, and the
\* error surfaces, whatever maxRetries and the response body are.
C4_ClientErrorNotRetried ==
    (PlainTransport /\ seen # {} /\ seen \subseteq 400 .. 499) =>
        /\ Len(sends) = 1
        /\ slept = <<>>
        /\ rpc \in {"fn", "rejected"}
        /\ rpc = "rejected" => settled.error.status \in seen

\* every attempt so far made one network call and was answered with status 500
AlwaysAnswered500 == seen = {500} /\ Len(sends) = calls

\* C10: when every attempt is answered with status 500 (and no interceptor
\* answers in the network's place), request() makes maxRetries+1 freshly
\* signed network attempts and rejects with a NetSuiteError of status 500 that
\* is retryable.
C10_ServerErrorExhausts ==
    (RetrySettled /\ opts.maxRetries >= 0 /\ AlwaysAnswered500 /\ EachProceedsOnce) =>
        /\ calls = opts.maxRetries + 1
        /\ nonces = opts.maxRetries + 1
        /\ rpc = "rejected"
        /\ instanceofNetSuiteError(settled.error)
        /\ settled.error.status = 500
        /\ isRetryable(settled.error)

\* the same with a logger that does not throw
C10_QuietLogger ==
    config.logger \in {"none", "quiet"} => C10_ServerErrorExhausts

\* interceptor i throws on every attempt: it was registered before the
\* request was made, it throws, and the interceptors registered before it pass
\* the request on and catch nothing
ThrowsOnEveryAttempt(i) ==
    /\ i \in 1 .. (Len(middlewares) - lateUses)
    /\ middlewares[i] = "throw"
    /\ \A j \in 1 .. (i - 1) : middlewares[j] \in {"pass", "setHeader", "again"}

\* the number of times the interceptor chain was started
ChainRuns == Len(SelectSeq(trace, LAMBDA e : e = Event("enter", 1)))

\* C33: an error thrown by an interceptor that is not a NetSuiteError is
\* treated as retryable: if the interceptor throws on every attempt, request()
\* signs and runs the interceptor chain maxRetries+1 times, makes no network
\* call, and then rejects with the interceptor's own error.
C33_InterceptorErrorRetried ==
    \A i \in 1 .. Len(middlewares) :
        (ThrowsOnEveryAttempt(i) /\ opts.maxRetries >= 0 /\ RetrySettled) =>
            /\ rpc = "rejected"
            /\ settled.error = PlainError("middleware error", i)
            /\ ~instanceofNetSuiteError(settled.error)
            /\ ChainRuns = opts.maxRetries + 1
            /\ nonces = opts.maxRetries + 1
            /\ \A a \in 1 .. calls : SignCalls(a) = 1
            /\ Len(slept) = opts.maxRetries
            /\ sends = <<>>

\* the same with a logger that does not throw
C33_QuietLogger ==
    config.logger \in {"none", "quiet"} => C33_InterceptorErrorRetried

\* an interceptor threw on each of three attempts
C33_Retried ==
    /\ ThrowsOnEveryAttempt(1)
    /\ opts.maxRetries = 2
    /\ rpc = "rejected"
    /\ ChainRuns = 3

\* what the interceptors of an attempt make of its headers / its metadata
WrittenHeaders(merged, wrote, stamp) ==
    IF wrote THEN Spread(merged, ("X-Trace" :> HeaderValue("interceptor", stamp))) ELSE merged

WrittenMetadata(wrote, stamp) ==
    IF wrote THEN ("startTime" :> HeaderValue("interceptor", stamp)) ELSE EmptyRecord

\* the attempts whose chain is running or whose network call is pending
Running == { r \in Callers : inflight[r].pc \in {"chain", "handler", "network"} }

\* C34: each attempt owns its context: under any interleaving of concurrent
\* request() calls on one transport, and across the attempts of one call, the
\* headers and metadata an interceptor writes in one attempt are never seen in
\* the context or on the network call of another attempt or request, and every
\* attempt starts with empty metadata and the freshly merged headers.
C34_ContextOwned ==
    /\ \A h \in handed :
          /\ h.metadata = EmptyRecord
          /\ \E n \in 0 .. (nonces - 1) :
                h.headers = MergeHeaders(config.defaultHeaders, sign(n), inflight[h.caller].perCall)
          /\ \A k \in DOMAIN h.headers : h.headers[k].text # "interceptor"
    /\ \A w \in wire :
          /\ w.headers = WrittenHeaders(w.merged, w.wrote, Stamp(w.caller, w.attempt))
          /\ w.metadata = WrittenMetadata(w.wrote, Stamp(w.caller, w.attempt))
    /\ \A r \in Running :
          /\ heap[inflight[r].ctx.headers] =
                WrittenHeaders(inflight[r].merged, inflight[r].wrote, Stamp(r, inflight[r].attempt))
          /\ heap[inflight[r].ctx.metadata] =
                WrittenMetadata(inflight[r].wrote, Stamp(r, inflight[r].attempt))
    /\ \A r, q \in Running : r # q => inflight[r].ctx.headers # inflight[q].ctx.headers
    /\ \A v, w \in wire :
          (v # w /\ v.headers = w.headers) => (v.caller = w.caller /\ v.attempt = w.attempt)

\* two calls in flight together: the second attempt of one passes its context
\* on unwritten after its first attempt wrote to its own, while the
\* interceptor of the other call has written to its context
C34_Witness ==
    /\ inflight[1].pc = "network" /\ inflight[1].attempt = 2 /\ ~inflight[1].wrote
    /\ inflight[2].pc = "handler" /\ inflight[2].wrote
    /\ \E w \in wire : w.caller = 1 /\ w.attempt = 1 /\ w.wrote
    /\ \E w \in wire : w.caller = 1 /\ w.attempt = 2 /\ "startTime" \notin DOMAIN w.metadata
    /\ config.defaultHeaders # EmptyRecord

\* what request() resolves with when the chain returned the response of the
\* short-circuiting interceptor i
ShortCircuited(i) ==
    /\ rpc = "resolved"
    /\ settled.value.status = ShortResponse(i).status
    /\ settled.value.data = ShortResponse(i).body
    /\ settled.value.headers = ShortResponse(i).headers

\* no network call and no retry
NoCallNoRetry == sends = <<>> /\ calls = 1 /\ slept = <<>> /\ onRetryLog = <<>>

\* the attempt during which the n-th event of the trace happened
AttemptAt(n) == Len(SelectSeq(SubSeq(trace, 1, n), LAMBDA e : e.ev = "sign"))

\* the number of times interceptor j invoked proceed in attempt a
ProceedsIn(j, a) ==
    Cardinality({ n \in 1 .. Len(trace) : trace[n] = Event("proceed", j) /\ AttemptAt(n) = a })

\* attempt a made no network call and no attempt followed it
NoCallNoRetryIn(a) ==
    /\ \A k \in 1 .. Len(sends) : sends[k].att # a
    /\ calls = a
    /\ Len(slept) = a - 1
    /\ Len(onRetryLog) = a - 1

\* C36 as stated: a response that an interceptor returns without calling
\* proceed is handed to the caller of request() as a successful result,
\* unchanged by status classification even when its status is >= 400, and it
\* causes no network call and no retry.
C36_ShortCircuitResolves_AsStated ==
    \A n \in 1 .. Len(trace) :
        (trace[n].ev = "enter" /\ middlewares[trace[n].mw] = "short") =>
            /\ NoCallNoRetryIn(AttemptAt(n))
            /\ rpc # "rejected"
            /\ RetrySettled => ShortCircuited(trace[n].mw)

\* C36 (amended): the same, provided no interceptor registered before it has
\* invoked proceed more than once in that attempt: the attempt in which the
\* interceptor returns its response makes no network call, no attempt follows
\* it, and request() resolves with that response.
C36_ShortCircuitResolves ==
    \A n \in 1 .. Len(trace) :
        (/\ trace[n].ev = "enter"
         /\ middlewares[trace[n].mw] = "short"
         /\ \A j \in 1 .. (trace[n].mw - 1) : ProceedsIn(j, AttemptAt(n)) <= 1) =>
            /\ NoCallNoRetryIn(AttemptAt(n))
            /\ rpc # "rejected"
            /\ RetrySettled => ShortCircuited(trace[n].mw)

\* a response with status 403 returned by an interceptor resolved a request
\* that allowed retries
C36_Witness ==
    /\ middlewares = <<"short">>
    /\ opts.maxRetries >= 1
    /\ ShortCircuited(1)
    /\ settled.value.status >= 400
    /\ NoCallNoRetry

(***************************************************************************)
(* Properties of the paginating query executor                             *)
(***************************************************************************)
Max(a, b) == IF a >= b THEN a ELSE b

CeilDiv(a, b) == (a + b - 1) \div b

RECURSIVE SumFirst(_, _)
SumFirst(q, n) == IF n <= 0 THEN 0 ELSE q[n] + SumFirst(q, n - 1)

RECURSIVE Flatten(_)
Flatten(pages) == IF pages = <<>> THEN <<>> ELSE pages[1] \o Flatten(Tail(pages))

\* C18: queryOne, for any pageSize >= 1, makes exactly one page request, with
\* limit 1, and resolves to the first row of that page, or to null when the
\* page is empty; a query matching no row does not make it throw.
C18_QueryOne ==
    (qopts.mode = "one" /\ qopts.pageSize >= 1) =>
        /\ Len(requests) <= 1
        /\ \A k \in 1 .. Len(requests) :
              requests[k].limit = 1 /\ requests[k].offset = qopts.startOffset
        /\ qpc \in {"await", "resume", "done", "failed"} => Len(requests) = 1
        /\ qpc \in {"loop", "await", "resume"} => qresult = Pending
        /\ qpc = "done" =>
              /\ qresult.kind = "ok"
              /\ pageSizes[1] = 0 => qresult.value = Null
              /\ pageSizes[1] > 0 =>
                    qresult.value = Row(ServerPage(server, 1, qopts.startOffset).items[1])
              /\ qopts.startOffset < server.rows => qresult.value = Row(qopts.startOffset + 1)
              /\ server.rows = 0 => qresult.value = Null

C18_Witness ==
    /\ qopts.mode = "one"
    /\ qopts.pageSize = MaxPageSize
    /\ qpc = "done"
    /\ server.rows = 0
    /\ Len(requests) = 1
    /\ qresult = Resolved(Null)

\* C19: for the same query, options and server, a fully consumed queryPages()
\* issues the same sequence of page requests as query() did, and the pages it
\* yields, concatenated, are query()'s items.
C19_StreamingEquivalent ==
    (prior.made /\ qopts.mode = "pages") =>
        /\ IsPrefix(requests, prior.requests)
        /\ IsPrefix(Flatten(yielded), prior.items)
        /\ qpc = "done" =>
              /\ requests = prior.requests
              /\ Flatten(yielded) = prior.items

C19_Witness ==
    /\ prior.made
    /\ qopts.mode = "pages"
    /\ qpc = "done"
    /\ Len(prior.requests) = 3
    /\ requests = prior.requests
    /\ Len(yielded) = 2
    /\ qopts.maxRows # Infinity
    /\ Flatten(yielded) = prior.items

\* pagination of query() stopped because the last page showed no further rows
StoppedAtEnd ==
    /\ qpc = "done"
    /\ qopts.mode = "query"
    /\ Len(requests) >= 1
    /\ LET last == requests[Len(requests)]
           pg == ServerPage(server, last.limit, last.offset)
       IN ~pg.hasMore /\ last.offset + Len(pg.items) >= pg.totalResults

\* C20: whenever pagination stopped because the last page showed no further
\* rows, the hasMore of query()'s result is false, for every starting offset.
C20_HasMoreFlag ==
    StoppedAtEnd => qresult.value.hasMore = FALSE

\* the same for a query that starts at offset 0
C20_FromOffsetZero ==
    (StoppedAtEnd /\ qopts.startOffset = 0) => qresult.value.hasMore = FALSE

\* C21: the limit of every page request sent by query() and queryPages() is at
\* most the page-size ceiling of 1000, whatever pageSize the caller passes.
C21_PageSizeCapped ==
    \A k \in 1 .. Len(requests) : requests[k].limit <= PageSizeCeiling

\* the same for callers that pass no pageSize above the ceiling
C21_WithinCeiling ==
    qopts.pageSize <= PageSizeCeiling =>
        \A k \in 1 .. Len(requests) : requests[k].limit <= PageSizeCeiling

\* page requests sent and not yet answered
InFlight ==
    Len(requests) - Len(pageSizes)
        - (IF qpc = "failed" \/ (qpc = "resume" /\ awaited.kind = "err") THEN 1 ELSE 0)

\* C22: query() and queryPages() keep at most one page request in flight and
\* issue requests in strictly increasing offset order: the first uses the
\* starting offset, each later one the previous offset plus the number of rows
\* of the previous page, which has been received by then.
C22_SequentialPages ==
    /\ InFlight \in {0, 1}
    /\ InFlight = 1 <=> qpc = "await"
    /\ Len(requests) >= 1 => requests[1].offset = qopts.startOffset
    /\ \A k \in 2 .. Len(requests) :
          /\ Len(pageSizes) >= k - 1
          /\ requests[k].offset = requests[k - 1].offset + pageSizes[k - 1]
          /\ requests[k].offset > requests[k - 1].offset

C22_Witness ==
    /\ qopts.mode = "pages"
    /\ qopts.startOffset = 1
    /\ qpc = "await"
    /\ Len(requests) = 3
    /\ pageSizes = <<2, 2>>
    /\ requests[3].offset = 5

\* C8: against a server that holds R rows and answers honestly, query() from
\* offset 0 with unbounded maxRows returns exactly the R rows in server order,
\* with pagesFetched = max(1, ceil(R / pageSize)) = the number of requests made
\* and hasMore = false.
C8_PaginationComplete ==
    (/\ qpc = "done"
     /\ qopts.mode = "query"
     /\ server.kind = "honest"
     /\ qopts.startOffset = 0
     /\ qopts.maxRows = Infinity
     /\ qopts.pageSize >= 1) =>
        /\ qresult.kind = "ok"
        /\ qresult.value.items = Ascending(1, server.rows)
        /\ qresult.value.totalResults = server.rows
        /\ qresult.value.pagesFetched = Max(1, CeilDiv(server.rows, qopts.pageSize))
        /\ qresult.value.pagesFetched = Len(requests)
        /\ qresult.value.hasMore = FALSE

C8_Witness ==
    /\ qpc = "done"
    /\ qopts.mode = "query"
    /\ server.kind = "honest"
    /\ qopts.startOffset = 0
    /\ qopts.maxRows = Infinity
    /\ qopts.pageSize = 2
    /\ server.rows = 5
    /\ qresult.value.pagesFetched = 3
    /\ Len(qresult.value.items) = 5

\* C9: every page request of query() and queryPages() carries
\* limit = min(pageSize, maxRows - rows received so far), and none is sent once
\* that is <= 0; when the first page already holds maxRows rows exactly one
\* request is made and query() reports hasMore = true if the total is larger.
C9_LimitPerRequest ==
    /\ \A k \in 1 .. Len(requests) :
          /\ requests[k].limit = Min(qopts.pageSize, qopts.maxRows - SumFirst(pageSizes, k - 1))
          /\ requests[k].limit > 0
    /\ (qpc = "loop" /\ Min(qopts.pageSize, qopts.maxRows - SumFirst(pageSizes, Len(pageSizes))) <= 0)
          => \A k \in 1 .. Len(requests) : k <= Len(pageSizes)
    /\ (Len(pageSizes) >= 1 /\ pageSizes[1] = qopts.maxRows) =>
          /\ Len(requests) = 1
          /\ qpc \in {"done", "yield", "resume"}
          /\ (qopts.mode = "query" /\ server.rows > qopts.maxRows) =>
                 /\ qresult.kind = "ok"
                 /\ qresult.value.hasMore = TRUE
                 /\ Len(qresult.value.items) = qopts.maxRows

C9_Witness ==
    /\ qpc = "done"
    /\ qopts.mode = "query"
    /\ qopts.maxRows = 2
    /\ qopts.pageSize = 2
    /\ pageSizes = <<2>>
    /\ server.rows > 2
    /\ Len(requests) = 1
    /\ qresult.value.hasMore = TRUE

\* the k-th page received says more rows exist: by its flag or by the count
SaysMore(k) ==
    received[k].hasMore \/ requests[k].offset + Len(received[k].items) < received[k].totalResults

\* what follows the k-th page received has been decided
Decided(k) == k < Len(received) \/ qpc \in {"await", "resume", "done", "failed"}

\* C32: after a non-empty page that leaves the accumulated row count below
\* maxRows, query() and queryPages() request another page if and only if the
\* page's hasMore flag is true or offset + page length < totalResults.
C32_MorePagesRule ==
    \A k \in 1 .. Len(received) :
        (Len(received[k].items) > 0 /\ SumFirst(pageSizes, k) < qopts.maxRows) =>
            /\ Decided(k) => (Len(requests) > k <=> SaysMore(k))
            /\ (k = Len(received) /\ qpc = "loop") =>
                  /\ SaysMore(k)
                  /\ EffectiveLimit(qopts.pageSize, qopts.maxRows, SumFirst(pageSizes, k)) > 0

\* a call that went on after a page whose flag said no (the count said yes),
\* went on after a page whose count said no (the flag said yes), and stopped
\* below maxRows at a page where both said no
C32_Witness ==
    /\ qpc = "done"
    /\ qopts.mode = "pages"
    /\ qopts.maxRows = Infinity
    /\ Len(received) = 3
    /\ Len(requests) = 3
    /\ ~received[1].hasMore /\ received[1].totalResults = MaxServerRows /\ SaysMore(1)
    /\ received[2].hasMore /\ received[2].totalResults = 0
    /\ Len(received[3].items) > 0 /\ ~SaysMore(3)

\* the k-th page received ends the pagination: it is empty, or its flag is
\* false and offset + page length >= totalResults
LastPage(k) == Len(received[k].items) = 0 \/ ~SaysMore(k)

\* the call has ended: query() settled, the generator of queryPages() returned
\* or threw
Ended == qpc \in {"done", "failed"}

\* no page request follows the k-th page received
NothingAfterPage(k) ==
    /\ k = Len(received)
    /\ Len(requests) = k
    /\ qpc \in {"yield", "resume", "done"}
    /\ qpc = "yield" => (qopts.mode = "pages" /\ Len(received[k].items) > 0)

\* a last page ends the call, and a finite maxRows bounds the page requests
PagesBounded ==
    /\ \A k \in 1 .. Len(received) : LastPage(k) => NothingAfterPage(k)
    /\ (qopts.maxRows # Infinity /\ qopts.maxRows >= 1) => Len(requests) <= qopts.maxRows

\* C37: provided every transport call settles, query() and queryPages()
\* terminate whenever the server eventually returns an empty page or a page
\* with hasMore false and offset + page length >= totalResults; and with a
\* finite maxRows = M >= 1 they terminate after at most M page requests
\* whatever the server returns.
C37_Terminates ==
    /\ []PagesBounded
    /\ (qpc # "idle") ~> Ended

\* a call with maxRows = 3 ended after three page requests, each answered
\* with one row and hasMore true
C37_Witness ==
    /\ Ended
    /\ qopts.maxRows = 3
    /\ Len(requests) = 3
    /\ \A k \in 1 .. 3 : received[k].hasMore /\ Len(received[k].items) = 1

\* a call without maxRows ended at the first page that was a last page
C37_EndedByLastPage ==
    /\ qpc = "done"
    /\ qopts.maxRows = Infinity
    /\ Len(received) = 3
    /\ SaysMore(1) /\ SaysMore(2)
    /\ Len(received[3].items) > 0 /\ LastPage(3)

\* C38: if the transport rejects the request for any page, query() rejects
\* with that same error, returns no partial result and sends no further page
\* request; queryPages() likewise ends with that error, having yielded exactly
\* the pages received before the failing request.
C38_PageErrorPropagates ==
    /\ qpc = "failed" =>
          /\ qresult = Rejected(TransportError(Len(requests)))
          /\ Len(requests) = Len(received) + 1
          /\ qopts.mode = "pages" =>
                yielded = [k \in 1 .. Len(received) |-> received[k].items]
    /\ (qpc = "done" /\ qopts.mode # "pages") =>
          (qresult.kind = "ok" /\ Len(requests) = Len(received))
    /\ qpc = "resume" =>
          IF Len(requests) = Len(received)
          THEN awaited.kind = "ok"
          ELSE /\ awaited = Rejected(TransportError(Len(requests)))
               /\ Len(requests) = Len(received) + 1
    /\ (qopts.mode = "pages" /\ qpc \in {"loop", "await"}) =>
          yielded = [k \in 1 .. Len(received) |-> received[k].items]

\* queryPages() ended with the error of its third page request after yielding
\* two pages
C38_Witness ==
    /\ qpc = "failed"
    /\ qopts.mode = "pages"
    /\ Len(requests) = 3
    /\ Len(yielded) = 2
    /\ qresult = Rejected(TransportError(3))

\* query() rejected with the error of its second page request, one page of
\* rows accumulated and not returned
C38_QueryRejected ==
    /\ qpc = "failed"
    /\ qopts.mode = "query"
    /\ Len(requests) = 2
    /\ Len(allItems) > 0
    /\ qresult = Rejected(TransportError(2))

\* no page received holds more rows than the limit requested for it
PagesWithinLimit ==
    \A k \in 1 .. Len(received) : Len(received[k].items) <= requests[k].limit

\* the rows handed to the consumer of queryPages() so far
RowsYielded == Len(Flatten(yielded))

\* C39: if no page holds more rows than the limit requested for it, query()
\* returns at most maxRows rows and queryPages() yields at most maxRows rows
\* in total, for every pageSize, starting offset and server row count.
C39_MaxRowsRespected ==
    PagesWithinLimit =>
        /\ qopts.mode = "query" =>
              /\ Len(allItems) <= qopts.maxRows
              /\ qresult.kind = "ok" => Len(qresult.value.items) <= qopts.maxRows
        /\ qopts.mode = "pages" => RowsYielded <= qopts.maxRows
        /\ SumFirst(pageSizes, Len(pageSizes)) <= qopts.maxRows

\* query() with maxRows 3 and the default page size returned exactly three
\* rows from an endpoint that had more: a page of two rows, then one of one
C39_Witness ==
    /\ qpc = "done"
    /\ qopts.mode = "query"
    /\ qopts.maxRows = 3
    /\ qopts.pageSize = 1000
    /\ pageSizes = <<2, 1>>
    /\ requests[2].limit = 1
    /\ received[2].hasMore
    /\ Len(qresult.value.items) = 3

\* a page that holds more rows than asked for takes the result beyond maxRows
C39_Overfull ==
    /\ qpc = "done"
    /\ qopts.mode = "query"
    /\ ~PagesWithinLimit
    /\ Len(qresult.value.items) > qopts.maxRows

(***************************************************************************)
(* Properties of executeRequest                                            *)
(***************************************************************************)
\* the network call k ended without a response, by a timeout / by another failure
TimedOut(k) ==
    sends[k].outcome.kind = "error" /\ sends[k].outcome.code \in {"ECONNABORTED", "ERR_CANCELED"}

FailedOtherwise(k) ==
    sends[k].outcome.kind = "error" /\ sends[k].outcome.code \notin {"ECONNABORTED", "ERR_CANCELED"}

\* the error carries the url and the method of the request of network call k
CarriesRequest(e, k) ==
    /\ e.requestUrl = {sends[k].request.url}
    /\ e.requestMethod = {sends[k].request.method}

\* request() on a transport without interceptors rejected right after network call k
SurfacedBy(k) == middlewares = <<>> /\ rpc = "rejected" /\ k = Len(sends) /\ config.logger # "warnThrows"

\* the first present of the fields names of the body of network call k, else dflt
FirstPresent(k, names, dflt) ==
    LET body == Coalesce(sends[k].outcome.data, EmptyRecord)
        present == { n \in 1 .. Len(names) : names[n] \in DOMAIN body }
    IN IF present = {} THEN dflt
       ELSE body[names[CHOOSE n \in present : \A m \in present : n <= m]]

\* C14: for a response with status >= 400 the NetSuiteError's message is the
\* first present of the body's detail, title, message, else 'HTTP <status>';
\* its code the first present of o:errorCode, code, else 'HTTP_<status>'; it
\* carries the status, the raw body and the request's url and method.
C14_ErrorFromResponse ==
    \A k \in 1 .. Len(sends) :
        (sends[k].outcome.kind = "response" /\ sends[k].outcome.status >= 400) =>
            LET e == sends[k].result.error
                st == sends[k].outcome.status
            IN /\ sends[k].result.kind = "err"
               /\ instanceofNetSuiteError(e)
               /\ e.message = FirstPresent(k, <<"detail", "title", "message">>,
                                           "HTTP " \o ToString(st))
               /\ e.code = FirstPresent(k, <<"o:errorCode", "code">>, "HTTP_" \o ToString(st))
               /\ e.status = st
               /\ ~Nullish(sends[k].outcome.data) => e.details = sends[k].outcome.data
               /\ Nullish(sends[k].outcome.data) => e.details = {EmptyRecord}
               /\ CarriesRequest(e, k)
               /\ (middlewares = <<>> /\ rpc = "rejected" /\ k = Len(sends)) => settled = Rejected(e)

C14_Witness ==
    /\ Len(sends) = 1
    /\ sends[1].outcome.status = 403
    /\ sends[1].outcome.data = {[f \in {"title", "message", "code"} |-> FieldText[f]]}
    /\ rpc = "rejected"
    /\ settled.error.message = "the title"
    /\ settled.error.code = "the code"
    /\ settled.error.status = 403

\* C15: a response with status 204 yields an absent body in the result of
\* request(), whatever payload the network call returned.
C15_NoContent ==
    /\ \A k \in 1 .. Len(sends) :
          (sends[k].outcome.kind = "response" /\ sends[k].outcome.status = 204) =>
              /\ sends[k].result.kind = "ok"
              /\ sends[k].result.value.status = 204
              /\ sends[k].result.value.body = Undefined
    /\ (rpc = "resolved" /\ settled.value.status = 204) => settled.value.data = Undefined

C15_Witness ==
    /\ rpc = "resolved"
    /\ settled.value.status = 204
    /\ Len(sends) = 1
    /\ sends[1].outcome.data = {[f \in {"detail", "code"} |-> FieldText[f]]}
    /\ settled.value.data = Undefined

\* C16: a body is attached to the network call only when the method is POST,
\* PUT or PATCH; for GET and DELETE none is transmitted on any attempt even
\* if options supplied one, and the request runs as usual.
C16_BodyByMethod ==
    /\ \A k \in 1 .. Len(sends) :
          LET req == sends[k].request
              method == Coalesce(options.method, "GET")
          IN /\ req.method = method
             /\ method \in {"GET", "DELETE"} => req.data = Undefined
             /\ method \in {"POST", "PUT", "PATCH"} =>
                   req.data = (IF ToBoolean(options.body) THEN options.body ELSE Undefined)
             /\ req.data # Undefined => req.method \in {"POST", "PUT", "PATCH"}
    /\ (/\ RetrySettled
        /\ middlewares = <<>>
        /\ Len(sends) >= 1
        /\ sends[Len(sends)].outcome.status \in 200 .. 299) => rpc = "resolved"

C16_Witness ==
    /\ options.method = {"GET"}
    /\ options.body # Undefined
    /\ Len(sends) = 2
    /\ sends[1].request.data = Undefined
    /\ sends[2].request.data = Undefined
    /\ rpc = "resolved"

\* the context of the running attempt has just been built: nothing but the
\* signer has run in this attempt
ContextHandedOver == stack # <<>> /\ trace[Len(trace)].ev = "sign"

\* C17: for every header name, the value in the context handed to the first
\* interceptor is the per-call header if given, else the fresh auth header,
\* else the client-wide default, else the built-in Content-Type.
C17_HeaderPrecedence ==
    ContextHandedOver =>
        LET perCall == Coalesce(options.headers, EmptyRecord)
            defaults == config.defaultHeaders
            headers == context.headers
        IN /\ DOMAIN headers =
                  DOMAIN perCall \cup {"Authorization"} \cup DOMAIN defaults \cup {"Content-Type"}
           /\ \A n \in DOMAIN headers :
                 headers[n] =
                    IF n \in DOMAIN perCall THEN HeaderValue("per-call", 0)
                    ELSE IF n = "Authorization" THEN HeaderValue("OAuth", calls)
                    ELSE IF n \in DOMAIN defaults THEN HeaderValue("default", 0)
                    ELSE HeaderValue("application/json", 0)

C17_Witness ==
    /\ ContextHandedOver
    /\ middlewares = <<"setHeader">>
    /\ DOMAIN config.defaultHeaders = HeaderNames
    /\ options.headers = {HeadersFrom("per-call", {"X-Trace"})}
    /\ context.headers["X-Trace"].text = "per-call"
    /\ context.headers["Authorization"].text = "OAuth"
    /\ context.headers["Content-Type"].text = "default"

\* C13: a network call that times out is surfaced as a NetSuiteError with
\* status 504 and code TIMEOUT, any other failure without a response as one
\* with status 0 and code NETWORK_ERROR; both carry the request's url and
\* method, are retryable and are not auth errors.
C13_NetworkFailures ==
    \A k \in 1 .. Len(sends) :
        (TimedOut(k) \/ FailedOtherwise(k)) =>
            LET e == sends[k].result.error
            IN /\ sends[k].result.kind = "err"
               /\ instanceofNetSuiteError(e)
               /\ TimedOut(k) => (e.status = 504 /\ e.code = "TIMEOUT")
               /\ FailedOtherwise(k) => (e.status = 0 /\ e.code = "NETWORK_ERROR")
               /\ CarriesRequest(e, k)
               /\ e.requestUrl = {Url}
               /\ e.requestMethod = {Coalesce(options.method, "GET")}
               /\ isRetryable(e)
               /\ ~isAuthError(e)
               /\ SurfacedBy(k) => settled = Rejected(e)

C13_Witness ==
    /\ Len(sends) = 2
    /\ FailedOtherwise(1)
    /\ TimedOut(2)
    /\ SurfacedBy(2)
    /\ settled.error.status = 504
    /\ settled.error.code = "TIMEOUT"
    /\ onRetryLog[1].error.code = "NETWORK_ERROR"

(***************************************************************************)
(* Properties of the utilities                                             *)
(***************************************************************************)
\* the identifier with every character lower-cased and every underscore
\* turned into a hyphen
Normalized(id) ==
    [i \in 1 .. Len(id) |->
        CASE id[i] = "A" -> "a"
          [] id[i] = "_" -> "-"
          [] OTHER       -> id[i]]

AlreadyNormalized(id) == \A i \in 1 .. Len(id) : id[i] \notin {"A", "_"}

\* the part of a URL between the scheme and the domain
AccountPart(url) ==
    LET d == CHOOSE i \in 1 .. Len(url) : url[i] \in {SuiteTalkDomain, RestletDomain}
    IN SubSeq(url, 2, d - 1)

\* C28: normalizeAccountId lower-cases the identifier and replaces every
\* underscore by a hyphen; it is idempotent and leaves a normalized identifier
\* unchanged; and the hosts built by SuiteQLClient, RecordClient,
\* RestletClient, buildSuiteTalkUrl and buildRestletUrl all embed exactly
\* normalizeAccountId(id).
C28_AccountIdNormalized ==
    /\ Len(norm) >= 1 =>
          /\ norm[1] = Normalized(accountId)
          /\ AlreadyNormalized(norm[1])
          /\ AlreadyNormalized(accountId) => norm[1] = accountId
    /\ Len(norm) >= 2 => norm[2] = norm[1]
    /\ \A b \in Builders :
          urls[b] # Undefined =>
              LET url == CHOOSE u \in urls[b] : TRUE
              IN /\ url[1] = "https://"
                 /\ AccountPart(url) = Normalized(accountId)
                 /\ Len(norm) >= 1 => AccountPart(url) = norm[1]
                 /\ url[Len(accountId) + 2] =
                       (IF b \in {"RestletClient", "buildRestletUrl"}
                        THEN RestletDomain ELSE SuiteTalkDomain)

C28_Witness ==
    /\ accountId = <<"A", "_", "_">>
    /\ norm = <<<<"a", "-", "-">>, <<"a", "-", "-">>>>
    /\ \A b \in Builders : urls[b] # Undefined
    /\ AccountPart(CHOOSE u \in urls["RestletClient"] : TRUE) = <<"a", "-", "-">>

\* the requests recorded in the window of windowMs that ends at time t
RecordedIn(t) ==
    { i \in 1 .. Len(recorded) : t - limiter.windowMs < recorded[i] /\ recorded[i] <= t }

\* C29: after any sequence of canMakeRequest, recordRequest,
\* getRemainingRequests and getTimeUntilNextSlot calls and time advances, the
\* number of requests recorded within any window of windowMs is at most
\* maxRequests.
C29_LimitNeverExceeded ==
    \A i \in 1 .. Len(recorded) : Cardinality(RecordedIn(recorded[i])) <= limiter.maxRequests

\* the same for a caller that records a request only when canMakeRequest() holds
C29_WhenGated ==
    ~ungated => C29_LimitNeverExceeded

\* the requests recorded before the last query and strictly less than windowMs
\* before it
InWindow ==
    { i \in 1 .. answer.seen : answer.at - recorded[i] < limiter.windowMs }

\* C31: for maxRequests >= 1 the queries of the rate limiter agree with the
\* sliding window: with c the number of requests recorded strictly less than
\* windowMs ago, canMakeRequest() is true iff c < maxRequests,
\* getRemainingRequests() is max(0, maxRequests - c), getTimeUntilNextSlot() is
\* 0 iff c < maxRequests and otherwise lies in (0, windowMs]; and once
\* windowMs has passed since the last recorded request the full capacity is
\* available again.
C31_SlidingWindow ==
    limiter.maxRequests >= 1 =>
        LET c == Cardinality(InWindow)
            free == c < limiter.maxRequests
            left == limiter.maxRequests - c
            idle == answer.seen >= 1 /\ answer.at - recorded[answer.seen] >= limiter.windowMs
        IN /\ ~answer.nan
           /\ answer.op = "canMakeRequest" =>
                 /\ answer.ok <=> free
                 /\ idle => answer.ok
           /\ answer.op = "getRemainingRequests" =>
                 /\ answer.n = (IF left > 0 THEN left ELSE 0)
                 /\ idle => answer.n = limiter.maxRequests
           /\ answer.op = "getTimeUntilNextSlot" =>
                 /\ answer.n = 0 <=> free
                 /\ ~free => (answer.n > 0 /\ answer.n <= limiter.windowMs)
                 /\ idle => answer.n = 0
           /\ Len(timestamps) >= Cardinality({ i \in 1 .. Len(recorded) : now - recorded[i] < limiter.windowMs })

\* a limiter of two requests per second that was full with one second to
\* wait, and has its full capacity again once the second has passed
C31_Witness ==
    /\ limiter = RateLimiter({2}, {1000})
    /\ recorded = <<0, 0>>
    /\ answer.op = "getRemainingRequests"
    /\ answer.at = 1000
    /\ answer.n = 2
    /\ timestamps = <<>>

\* a full limiter reports the time left until its oldest request expires
C31_Waiting ==
    /\ limiter = RateLimiter({1}, {2})
    /\ recorded = <<0>>
    /\ answer = [op |-> "getTimeUntilNextSlot", ok |-> FALSE, n |-> 1, nan |-> FALSE, at |-> 1, seen |-> 1]

\* the entry written by the set w is still valid at time t
Live(w, t) == t <= w.at + w.ttl * 1000

\* C30: get(key) returns the value of the most recent set(key, v, ttl) if and
\* only if no delete(key) or clear() has removed the entry since and the
\* current time is at most the set time plus ttl * 1000 ms; otherwise it
\* returns null.  A get that finds an expired entry removes it, and until then
\* the expired entry stays in the map and counts in size.
C30_CacheGet ==
    /\ got # Undefined =>
          LET g == CHOOSE x \in got : TRUE
              written == g.written # Undefined
              w == CHOOSE x \in g.written : TRUE
          IN /\ (written /\ Live(w, g.at)) =>
                    /\ g.value = Hit(w.data)
                    /\ g.holds
                    /\ g.sizeAfter = g.sizeBefore
             /\ ~(written /\ Live(w, g.at)) =>
                    /\ g.value = Null
                    /\ ~g.holds
                    /\ g.sizeAfter \in {g.sizeBefore, g.sizeBefore - 1}
    /\ \A k \in Keys :
          /\ cache[k] # Undefined =>
                /\ lastSet[k] # Undefined
                /\ (CHOOSE e \in cache[k] : TRUE).data = (CHOOSE x \in lastSet[k] : TRUE).data
          /\ (lastSet[k] # Undefined /\ cache[k] = Undefined) =>
                /\ ~Live(CHOOSE x \in lastSet[k] : TRUE, now)
                /\ got # Undefined
    /\ Size(cache) <= Cardinality({ k \in Keys : lastSet[k] # Undefined })

C30_Witness ==
    /\ got # Undefined
    /\ LET g == CHOOSE x \in got : TRUE
       IN /\ g.key = "key1"
          /\ g.written = {[data |-> "value2", at |-> 0, ttl |-> 1]}
          /\ g.at = 1001
          /\ g.value = Null
          /\ g.sizeBefore = 2
          /\ g.sizeAfter = 1
    /\ cache["key1"] = Undefined
    /\ cache["key2"] # Undefined

\* the boundary: a get at exactly the expiry time still returns the value
C30_AtExpiry ==
    /\ got # Undefined
    /\ LET g == CHOOSE x \in got : TRUE
       IN /\ g.written = {[data |-> "value1", at |-> 0, ttl |-> 1]}
          /\ g.at = 1000
          /\ g.value = Hit("value1")

====
